---------------------------- MODULE Spec2Model ----------------------------
(***************************************************************************)
(* Model of the MCP capability broker (mcp-core): the policy engine, the   *)
(* snapshot manager, the audit log and the file, snapshot, git and command *)
(* services that compose them.                                             *)
(*                                                                         *)
(* Text is modelled by TLA+ strings, handled character by character with   *)
(* Len, SubSeq and \o.  A raw path is a string; a canonical path is the    *)
(* sequence of its components, as std::path::Path compares them.           *)
(*                                                                         *)
(* The file system holds directories, regular files and two symbolic       *)
(* links; the snapshot directory lies outside the allowed roots and is     *)
(* kept apart (snapDirs, blobs, indexJson).  Spec runs one request at a    *)
(* time, each handler from its policy check to its response; SpecPolicy    *)
(* evaluates the policy engine alone and SpecPredict the dry-run table.    *)
(* SpecSnapshots runs SnapshotManager in the steps between which two       *)
(* callers interleave (the mutex held over restore and over the first half *)
(* of delete), and SpecSnapshotsCrash adds a crash and restart of the      *)
(* process.  SpecCommand runs the command service with its child processes *)
(* (a child is opaque: it runs, it may exit, it does not touch the         *)
(* modelled files); SpecCommandLive adds fair scheduling of the handler    *)
(* and the passing of time.  SpecOps runs the requests of the file, git    *)
(* and command services from a broker that has an earlier audit log.       *)
(* SpecFileSteps takes create, append and move of the file service in the  *)
(* steps of their handlers (policy, capture, index write, mutation, audit  *)
(* row), each of which may fail; SpecSnapshotService calls the snapshot    *)
(* service with paths inside and outside the allowed roots;                *)
(* SpecSnapshotsTorn adds to the crash a process that dies inside the      *)
(* write of index.json; SpecRestoreSteps takes the restore of the snapshot *)
(* service file by file, SpecRace two requests of the file service on one  *)
(* file with fs::write in its two system calls, SpecQuery the queries of   *)
(* the audit log, whose rows carry their timestamps there, and SpecLocks   *)
(* the taking and dropping of the guards of the index Mutex, the audit     *)
(* Mutex and the configuration lock by a bounded list of calls, with fair  *)
(* scheduling of the calls in progress.                                    *)
(* Timestamps (Snapshot.created_at, AuditEntry.timestamp) are not part of  *)
(* the state.  Outside SpecSnapshotsTorn a write of index.json is atomic;  *)
(* outside SpecFileSteps the insertion of an audit row does not fail.      *)
(***************************************************************************)
EXTENDS Integers, Sequences, FiniteSets, TLC

VARIABLES
    config,      \* Config behind Arc<RwLock<Config>>
    fsDirs,      \* directories of the file system (canonical paths)
    fsFiles,     \* regular files of the file system: canonical path -> bytes
    snapshots,   \* SnapshotManager.snapshots: id -> Snapshot (in memory)
    indexJson,   \* <base>/index.json as last written: id -> Snapshot
    snapDirs,    \* the directories <base>/<id> that exist
    blobs,       \* the blob files: <<id, hash>> -> bytes
    nextUuid,    \* number of UUIDs minted so far
    audit,       \* rows of the audit_log table, in insertion order
    children,    \* the child processes spawned so far, in spawn order
    repos,       \* the git repositories: canonical path -> index and commits
    tasks,       \* the calls in progress: caller -> its position and locals
    held,        \* what a caller keeps from SnapshotManager::create; in SpecRace
                 \* the record of the calls made
    resp         \* the response of the last request, or the last event

vars == <<config, fsDirs, fsFiles, snapshots, indexJson, snapDirs, blobs,
          nextUuid, audit, children, repos, tasks, held, resp>>

-----------------------------------------------------------------------------
(* Strings *)

Upper == "ABCDEFGHIJKLMNOPQRSTUVWXYZ"

Lower == "abcdefghijklmnopqrstuvwxyz"

CharAt(s, i) == SubSeq(s, i, i)

\* char::to_lowercase on one (ASCII) character
ToLowerChar(c) ==
    IF \E i \in 1..26 : CharAt(Upper, i) = c
    THEN CharAt(Lower, CHOOSE i \in 1..26 : CharAt(Upper, i) = c)
    ELSE c

RECURSIVE to_lowercase(_)
\* str::to_lowercase
to_lowercase(s) ==
    IF Len(s) = 0 THEN ""
    ELSE ToLowerChar(CharAt(s, 1)) \o to_lowercase(SubSeq(s, 2, Len(s)))

\* str::starts_with
str_starts_with(s, p) == Len(p) <= Len(s) /\ SubSeq(s, 1, Len(p)) = p

\* str::contains
str_contains(s, p) ==
    \E i \in 1..(Len(s) + 1) :
        i + Len(p) - 1 <= Len(s) /\ SubSeq(s, i, i + Len(p) - 1) = p

RECURSIVE join(_, _)
\* [String]::join
join(ss, sep) ==
    IF Len(ss) = 0 THEN ""
    ELSE IF Len(ss) = 1 THEN ss[1]
    ELSE ss[1] \o sep \o join(Tail(ss), sep)

\* the raw paths that occur in requests and in the configuration
KnownPaths ==
    {"/", "/tmp", "/tmp/proj", "/tmp/proj2", "/tmp/in", "/tmp/gone", "/tmp/nowhere",
     "/tmp/proj/a.txt", "/tmp/in/a.txt", "/tmp/proj/new.txt", "/tmp/proj/sub/new.txt",
     "/tmp/proj/Windows", "/tmp/proj/Windows/w.txt", "/tmp/proj/./a.txt",
     "/tmp/proj2/s.txt", "/tmp/proj/../proj2/s.txt", "/tmp/proj/lnk/passwd",
     "/tmp/in/Windows/../a.txt", "/etc/passwd", "/tmp/proj/a.txt/x", "/tmp/proj/b.txt"}

\* the lower-case form of the known paths, computed once
LowercaseTable == [p \in KnownPaths |-> to_lowercase(p)]

-----------------------------------------------------------------------------
(* Paths *)

RECURSIVE SplitFrom(_, _, _)
\* the '/'-separated pieces of s from position i on, cur being the piece read so far
SplitFrom(s, i, cur) ==
    IF i > Len(s) THEN <<cur>>
    ELSE IF CharAt(s, i) = "/" THEN <<cur>> \o SplitFrom(s, i + 1, "")
    ELSE SplitFrom(s, i + 1, cur \o CharAt(s, i))

\* Path::components of an absolute path: empty pieces and "." are dropped
ParseComponents(p) == SelectSeq(SplitFrom(p, 1, ""), LAMBDA c : c /= "" /\ c /= ".")

\* the components of the known paths, parsed once
ComponentsTable == [p \in KnownPaths |-> ParseComponents(p)]

Components(p) ==
    IF p \in KnownPaths THEN ComponentsTable[p] ELSE ParseComponents(p)

\* Path::starts_with: component-wise prefix
path_starts_with(c, base) ==
    Len(base) <= Len(c) /\ SubSeq(c, 1, Len(base)) = base

\* Path::parent on a canonical path
Parent(c) == SubSeq(c, 1, Len(c) - 1)

\* the symbolic links of the file system: canonical path -> canonical target
Symlinks == (<<"tmp", "proj", "lnk">> :> <<"etc">>)
         @@ (<<"tmp", "in">> :> <<"tmp", "proj">>)

Failed == <<"<error>">>

RECURSIVE ResolveFrom(_, _, _, _, _)
\* walk the components cs[i..] from the resolved location cur, following
\* symbolic links; Failed when a component is missing or lies below a file
ResolveFrom(dirs, files, cs, i, cur) ==
    IF i > Len(cs) THEN cur
    ELSE IF cur \in DOMAIN files THEN Failed        \* ENOTDIR
    ELSE IF cs[i] = ".." THEN
        ResolveFrom(dirs, files, cs, i + 1, IF Len(cur) = 0 THEN cur ELSE Parent(cur))
    ELSE LET cand == Append(cur, cs[i]) IN
         IF cand \in DOMAIN Symlinks
         THEN ResolveFrom(dirs, files, cs, i + 1, Symlinks[cand])
         ELSE IF cand \in dirs \/ cand \in DOMAIN files
         THEN ResolveFrom(dirs, files, cs, i + 1, cand)
         ELSE Failed                                 \* ENOENT

\* Path::canonicalize: every component must exist; Failed stands for Err
canonicalize(dirs, files, p) == ResolveFrom(dirs, files, Components(p), 1, <<>>)

\* the place the OS gives a path that is opened for writing: the parent must
\* resolve to a directory, the last component may be missing
Locate(dirs, files, p) ==
    LET cs == Components(p)
        c  == canonicalize(dirs, files, p)
    IN  IF c /= Failed THEN c
        ELSE IF Len(cs) = 0 \/ cs[Len(cs)] = ".." THEN Failed
        ELSE LET par == ResolveFrom(dirs, files, SubSeq(cs, 1, Len(cs) - 1), 1, <<>>)
             IN  IF par = Failed \/ par \notin dirs THEN Failed
                 ELSE Append(par, cs[Len(cs)])

\* Path::exists, Path::is_file, Path::is_dir (they follow symbolic links)
path_exists(dirs, files, p) == canonicalize(dirs, files, p) /= Failed

path_is_file(dirs, files, p) == canonicalize(dirs, files, p) \in DOMAIN files

path_is_dir(dirs, files, p) == canonicalize(dirs, files, p) \in dirs

-----------------------------------------------------------------------------
(* Config *)

\* is_path_allowed comparing the text of the paths instead of the
\* components of their canonical forms
is_path_allowed_textual(cfg, dirs, files, p) ==
    \E i \in 1..Len(cfg.allowed_paths) : str_starts_with(p, cfg.allowed_paths[i])

\* Config::is_path_allowed
is_path_allowed(cfg, dirs, files, p) ==
    LET canonical == canonicalize(dirs, files, p) IN
    IF canonical = Failed THEN FALSE
    ELSE \E i \in 1..Len(cfg.allowed_paths) :
            LET allowed_canonical == canonicalize(dirs, files, cfg.allowed_paths[i])
            IN  IF allowed_canonical /= Failed
                THEN path_starts_with(canonical, allowed_canonical)
                ELSE FALSE

\* is_command_whitelisted accepting a command that starts with a whitelisted name
is_command_whitelisted_prefix(cfg, command) ==
    \E i \in 1..Len(cfg.whitelisted_commands) :
        str_starts_with(command, cfg.whitelisted_commands[i])

\* Config::is_command_whitelisted
is_command_whitelisted(cfg, command) ==
    \E i \in 1..Len(cfg.whitelisted_commands) : cfg.whitelisted_commands[i] = command

-----------------------------------------------------------------------------
(* PolicyEngine *)

Allow == [kind |-> "Allow", reason |-> ""]

RequireApproval(reason) == [kind |-> "RequireApproval", reason |-> reason]

Deny(reason) == [kind |-> "Deny", reason |-> reason]

\* check_file_access looking for the system names without lower-casing the path
check_file_access_case_sensitive(cfg, dirs, files, p, write) ==
    IF ~is_path_allowed(cfg, dirs, files, p)
    THEN Deny("Path '" \o p \o "' is not within allowed directories")
    ELSE IF write
    THEN IF str_contains(p, "system32") \/ str_contains(p, "windows")
                \/ str_contains(p, "/etc")
         THEN Deny("Cannot write to system directories")
         ELSE RequireApproval("Write to '" \o p \o "'")
    ELSE Allow

\* PolicyEngine::check_file_access
check_file_access(cfg, dirs, files, p, write) ==
    IF ~is_path_allowed(cfg, dirs, files, p)
    THEN Deny("Path '" \o p \o "' is not within allowed directories")
    ELSE IF write
    THEN LET path_str == IF p \in KnownPaths THEN LowercaseTable[p]
                          ELSE to_lowercase(p) IN
         IF str_contains(path_str, "system32") \/ str_contains(path_str, "windows")
                \/ str_contains(path_str, "/etc")
         THEN Deny("Cannot write to system directories")
         ELSE RequireApproval("Write to '" \o p \o "'")
    ELSE Allow

\* format!("{} {}", command, args.join(" "))
full_command(command, args) == command \o " " \o join(args, " ")

\* check_command testing the sensitive patterns before the auto-approve patterns
check_command_sensitive_first(cfg, command, args) ==
    IF ~is_command_whitelisted(cfg, command)
    THEN Deny("Command '" \o command \o "' is not whitelisted")
    ELSE LET full == full_command(command, args) IN
         IF \E i \in 1..Len(cfg.sensitive_patterns) :
                str_contains(full, cfg.sensitive_patterns[i])
         THEN RequireApproval("Sensitive command detected: " \o full)
         ELSE IF \E i \in 1..Len(cfg.auto_approve_patterns) :
                str_starts_with(full, cfg.auto_approve_patterns[i])
         THEN Allow
         ELSE RequireApproval("Execute command: " \o full)

\* check_command matching the sensitive patterns as prefixes only
check_command_sensitive_prefix(cfg, command, args) ==
    IF ~is_command_whitelisted(cfg, command)
    THEN Deny("Command '" \o command \o "' is not whitelisted")
    ELSE LET full == full_command(command, args) IN
         IF \E i \in 1..Len(cfg.auto_approve_patterns) :
                str_starts_with(full, cfg.auto_approve_patterns[i])
         THEN Allow
         ELSE IF \E i \in 1..Len(cfg.sensitive_patterns) :
                str_starts_with(full, cfg.sensitive_patterns[i])
         THEN RequireApproval("Sensitive command detected: " \o full)
         ELSE RequireApproval("Execute command: " \o full)

\* PolicyEngine::check_command
check_command(cfg, command, args) ==
    IF ~is_command_whitelisted(cfg, command)
    THEN Deny("Command '" \o command \o "' is not whitelisted")
    ELSE LET full == full_command(command, args) IN
         IF \E i \in 1..Len(cfg.auto_approve_patterns) :
                str_starts_with(full, cfg.auto_approve_patterns[i])
         THEN Allow
         ELSE IF \E i \in 1..Len(cfg.sensitive_patterns) :
                str_contains(full, cfg.sensitive_patterns[i])
         THEN RequireApproval("Sensitive command detected: " \o full)
         ELSE RequireApproval("Execute command: " \o full)

\* check_git_operation with the approval arm matching every operation that
\* starts with one of its names, ahead of the dangerous operations
check_git_operation_prefix(cfg, dirs, files, repo_path, operation) ==
    IF ~is_path_allowed(cfg, dirs, files, repo_path)
    THEN Deny("Repository path '" \o repo_path \o "' is not within allowed directories")
    ELSE IF operation \in {"status", "log", "diff", "branch"}
    THEN Allow
    ELSE IF \E o \in {"commit", "push", "pull", "checkout", "merge"} :
                str_starts_with(operation, o)
    THEN RequireApproval("Git " \o operation \o ": " \o repo_path)
    ELSE IF operation \in {"push --force", "reset --hard"}
    THEN Deny("Dangerous git operation '" \o operation \o "' is blocked by default")
    ELSE RequireApproval("Git " \o operation \o ": " \o repo_path)

\* PolicyEngine::check_git_operation
check_git_operation(cfg, dirs, files, repo_path, operation) ==
    IF ~is_path_allowed(cfg, dirs, files, repo_path)
    THEN Deny("Repository path '" \o repo_path \o "' is not within allowed directories")
    ELSE IF operation \in {"status", "log", "diff", "branch"}
    THEN Allow
    ELSE IF operation \in {"commit", "push", "pull", "checkout", "merge"}
    THEN RequireApproval("Git " \o operation \o ": " \o repo_path)
    ELSE IF operation \in {"push --force", "reset --hard"}
    THEN Deny("Dangerous git operation '" \o operation \o "' is blocked by default")
    ELSE RequireApproval("Git " \o operation \o ": " \o repo_path)

\* PolicyEngine::validate_approval
validate_approval(token) == token /= ""

-----------------------------------------------------------------------------
(* File system calls (std::fs) *)

IoErr == [ok |-> FALSE]

\* fs::read: the bytes of a regular file, Err for a directory or a missing path
fs_read(dirs, files, p) ==
    LET c == canonicalize(dirs, files, p)
    IN  IF c \in DOMAIN files THEN [ok |-> TRUE, bytes |-> files[c]] ELSE IoErr

\* fs::write: creates or truncates the file; on Ok the new map of regular files
fs_write(dirs, files, p, content) ==
    LET loc == Locate(dirs, files, p)
    IN  IF loc = Failed \/ loc \in dirs THEN IoErr
        ELSE [ok |-> TRUE, files |-> (loc :> content) @@ files]

\* OpenOptions::new().create(true).append(true) followed by write_all
fs_append(dirs, files, p, content) ==
    LET loc == Locate(dirs, files, p)
    IN  IF loc = Failed \/ loc \in dirs THEN IoErr
        ELSE IF loc \in DOMAIN files
        THEN [ok |-> TRUE, files |-> (loc :> (files[loc] \o content)) @@ files]
        ELSE [ok |-> TRUE, files |-> (loc :> content) @@ files]

RECURSIVE MkdirFrom(_, _, _, _, _)
\* fs::create_dir_all over the components cs[i..] from the directory cur:
\* on Ok the new set of directories
MkdirFrom(dirs, files, cs, i, cur) ==
    IF i > Len(cs) THEN [ok |-> TRUE, dirs |-> dirs]
    ELSE IF cs[i] = ".." THEN
        MkdirFrom(dirs, files, cs, i + 1, IF Len(cur) = 0 THEN cur ELSE Parent(cur))
    ELSE LET cand == Append(cur, cs[i]) IN
         IF cand \in DOMAIN Symlinks
         THEN LET t == Symlinks[cand] IN
              IF t \in dirs THEN MkdirFrom(dirs, files, cs, i + 1, t) ELSE IoErr
         ELSE IF cand \in DOMAIN files THEN IoErr
         ELSE MkdirFrom(dirs \cup {cand}, files, cs, i + 1, cand)

\* fs::create_dir_all(path.parent()) for a raw path
create_parent_dirs(dirs, files, p) ==
    LET cs == Components(p)
    IN  IF Len(cs) = 0 THEN [ok |-> TRUE, dirs |-> dirs]
        ELSE MkdirFrom(dirs, files, SubSeq(cs, 1, Len(cs) - 1), 1, <<>>)

\* fs::metadata(path).len(): the size of a regular file; for a directory the
\* size of the directory itself, one block of 4096 bytes
metadata_len(dirs, files, p) ==
    LET c == canonicalize(dirs, files, p)
    IN  IF c \in DOMAIN files THEN [ok |-> TRUE, len |-> Len(files[c])]
        ELSE IF c \in dirs THEN [ok |-> TRUE, len |-> 4096]
        ELSE IoErr

\* the path q with its prefix src replaced by dst
Rebase(q, src, dst) == dst \o SubSeq(q, Len(src) + 1, Len(q))

\* fs::rename: on Ok the new directories and regular files.  A regular file
\* replaces a regular file; a directory replaces an empty directory and is
\* not moved below itself.  (No request names a symbolic link itself.)
fs_rename(dirs, files, from, to) ==
    LET src == canonicalize(dirs, files, from)
        dst == Locate(dirs, files, to)
    IN  IF src = Failed \/ dst = Failed THEN IoErr
        ELSE IF src = dst THEN [ok |-> TRUE, dirs |-> dirs, files |-> files]
        ELSE IF src \in DOMAIN files
        THEN IF dst \in dirs THEN IoErr
             ELSE [ok |-> TRUE, dirs |-> dirs,
                   files |-> (dst :> files[src])
                             @@ [f \in DOMAIN files \ {src} |-> files[f]]]
        ELSE IF \/ dst \in DOMAIN files
                \/ path_starts_with(dst, src)
                \/ \E q \in (dirs \cup DOMAIN files) \ {dst} : path_starts_with(q, dst)
        THEN IoErr
        ELSE LET movedDirs  == { d \in dirs : path_starts_with(d, src) }
                 movedFiles == { f \in DOMAIN files : path_starts_with(f, src) }
             IN  [ok |-> TRUE,
                  dirs |-> (dirs \ movedDirs) \cup { Rebase(d, src, dst) : d \in movedDirs },
                  files |-> [g \in { Rebase(f, src, dst) : f \in movedFiles } |->
                                files[Rebase(g, dst, src)]]
                            @@ [f \in DOMAIN files \ movedFiles |-> files[f]]]

\* fs::copy: the source must be a regular file; the target is created or
\* truncated before the bytes are copied, so a file copied onto itself is
\* left empty
fs_copy(dirs, files, from, to) ==
    LET src == canonicalize(dirs, files, from)
        dst == Locate(dirs, files, to)
    IN  IF src \notin DOMAIN files \/ dst = Failed \/ dst \in dirs THEN IoErr
        ELSE [ok |-> TRUE,
              files |-> (dst :> (IF src = dst THEN "" ELSE files[src])) @@ files]

-----------------------------------------------------------------------------
(* Hashing *)

HashAlphabet == Lower \o Upper \o "0123456789 ./-_"

HashModulus == 1000003

CharCode(c) ==
    IF \E i \in 1..Len(HashAlphabet) : CharAt(HashAlphabet, i) = c
    THEN CHOOSE i \in 1..Len(HashAlphabet) : CharAt(HashAlphabet, i) = c
    ELSE 0

RECURSIVE DigestFrom(_, _, _)
DigestFrom(s, i, h) ==
    IF i > Len(s) THEN h
    ELSE DigestFrom(s, i + 1, (h * 131 + CharCode(CharAt(s, i)) + 1) % HashModulus)

\* hex::encode(Sha256::digest(content)): a digest computed from the bytes
\* (a polynomial digest stands for SHA-256; it has no collision on the
\* contents of this model)
compute_sha256(content) == DigestFrom(content, 1, 7)

-----------------------------------------------------------------------------
(* SnapshotManager *)

\* the state the operations of the broker read and write
World == [dirs |-> fsDirs, files |-> fsFiles, snapshots |-> snapshots,
          indexJson |-> indexJson, snapDirs |-> snapDirs, blobs |-> blobs,
          nextUuid |-> nextUuid, audit |-> audit, children |-> children,
          repos |-> repos]

\* Uuid::new_v4().to_string() for the n-th snapshot
SnapshotId(n) == "snap-" \o CharAt("123456789", n)

EmptyMap == [x \in {} |-> x]

\* snapshot_file as it would be if the blob name were derived from the path as
\* well as from the content
snapshot_file_per_path(w, path, id) ==
    LET content == fs_read(w.dirs, w.files, path).bytes
        sha256  == compute_sha256(path \o content)
    IN  [original_path |-> path, snapshot_path |-> <<id, sha256>>,
         sha256 |-> sha256, size |-> Len(content)]

\* SnapshotManager::snapshot_file: the FileSnapshot of one regular file
snapshot_file(w, path, id) ==
    LET content == fs_read(w.dirs, w.files, path).bytes
        sha256  == compute_sha256(content)
    IN  [original_path |-> path, snapshot_path |-> <<id, sha256>>,
         sha256 |-> sha256, size |-> Len(content)]

\* the regular files WalkDir finds under a directory, as entry.path() names them
WalkDir(w, path) ==
    LET root == canonicalize(w.dirs, w.files, path)
    IN  { path \o "/" \o join(SubSeq(f, Len(root) + 1, Len(f)), "/") :
            f \in { g \in DOMAIN w.files : path_starts_with(g, root) } }

\* the files one input path of create contributes
CapturedOf(w, path) ==
    IF path_is_file(w.dirs, w.files, path) THEN {path}
    ELSE IF path_is_dir(w.dirs, w.files, path) THEN WalkDir(w, path)
    ELSE {}

\* SnapshotManager::save_index: index.json becomes the in-memory index
save_index(w) == [w EXCEPT !.indexJson = w.snapshots]

\* SnapshotManager::create
SnapshotManager_create(w, paths, label) ==
    LET id       == SnapshotId(w.nextUuid + 1)
        captured == UNION { CapturedOf(w, paths[i]) : i \in 1..Len(paths) }
        files    == [p \in captured |-> snapshot_file(w, p, id)]
        written  == [k \in { files[p].snapshot_path : p \in captured } |->
                        fs_read(w.dirs, w.files,
                                CHOOSE p \in captured : files[p].snapshot_path = k).bytes]
        snapshot == [id |-> id, label |-> label, paths |-> paths, files |-> files]
        w1 == [w EXCEPT !.nextUuid = w.nextUuid + 1,
                        !.snapDirs = w.snapDirs \cup {id},
                        !.blobs = w.blobs @@ written,
                        !.snapshots = (id :> snapshot) @@ w.snapshots]
    IN  [w |-> save_index(w1), ok |-> TRUE, snapshot |-> snapshot]

\* should_restore selecting only the files that are themselves targets
should_restore_exact(original_path, targets) ==
    IF targets = <<>> THEN TRUE
    ELSE \E i \in 1..Len(targets[1]) :
            Components(original_path) = Components(targets[1][i])

\* should_restore selecting nothing when no target list is given
should_restore_none_false(original_path, targets) ==
    IF targets = <<>> THEN FALSE
    ELSE \E i \in 1..Len(targets[1]) :
            path_starts_with(Components(original_path), Components(targets[1][i]))

\* should_restore of SnapshotManager::restore; targets is <<>> for None
\* and <<list>> for Some(list)
should_restore(original_path, targets) ==
    IF targets = <<>> THEN TRUE
    ELSE \E i \in 1..Len(targets[1]) :
            path_starts_with(Components(original_path), Components(targets[1][i]))

RECURSIVE RestoreFiles(_, _, _, _)
\* the loop of SnapshotManager::restore over the selected files (HashMap
\* order): the files written before a failure stay written
RestoreFiles(w, snapshot, todo, restored) ==
    IF todo = {} THEN [w |-> w, ok |-> TRUE, restored |-> restored]
    ELSE LET p    == CHOOSE q \in todo : TRUE
             fsn  == snapshot.files[p]
             d1   == create_parent_dirs(w.dirs, w.files, p)
             f1   == fs_write(d1.dirs, w.files, p, w.blobs[fsn.snapshot_path])
         IN  IF fsn.snapshot_path \notin DOMAIN w.blobs \/ ~d1.ok
             THEN [w |-> w, ok |-> FALSE, restored |-> restored]
             ELSE IF ~f1.ok
             THEN [w |-> [w EXCEPT !.dirs = d1.dirs], ok |-> FALSE, restored |-> restored]
             ELSE RestoreFiles([w EXCEPT !.dirs = d1.dirs, !.files = f1.files], snapshot,
                               todo \ {p}, restored \cup {p})

\* SnapshotManager::restore
SnapshotManager_restore(w, snapshot_id, targets) ==
    IF snapshot_id \notin DOMAIN w.snapshots
    THEN [w |-> w, ok |-> FALSE, err |-> "NotFound", restored |-> {}]
    ELSE LET snapshot == w.snapshots[snapshot_id]
             selected == { p \in DOMAIN snapshot.files : should_restore(p, targets) }
             r        == RestoreFiles(w, snapshot, selected, {})
         IN  IF r.ok
             THEN [w |-> r.w, ok |-> TRUE, err |-> "", restored |-> r.restored]
             ELSE [w |-> r.w, ok |-> FALSE, err |-> "SnapshotError", restored |-> {}]

\* SnapshotManager::delete
SnapshotManager_delete(w, id) ==
    IF id \notin DOMAIN w.snapshots
    THEN [w |-> w, ok |-> FALSE, err |-> "NotFound"]
    ELSE LET w1 == [w EXCEPT
                      !.snapshots = [k \in DOMAIN w.snapshots \ {id} |-> w.snapshots[k]],
                      !.snapDirs = w.snapDirs \ {id},
                      !.blobs = [k \in { b \in DOMAIN w.blobs : b[1] /= id } |-> w.blobs[k]]]
         IN  [w |-> save_index(w1), ok |-> TRUE, err |-> ""]

-----------------------------------------------------------------------------
(* AuditLogger *)

None == <<>>

Some(x) == <<x>>

\* AuditLogger::create_entry
create_entry(service, action) ==
    [service |-> service, action |-> action, details |-> "",
     user_approved |-> FALSE, approval_token |-> None,
     result |-> "pending", snapshot_id |-> None]

AuditLogger_log_replaces(w, entry) ==
    [w EXCEPT !.audit = <<[id |-> 1] @@ entry>>]

\* AuditLogger::log: INSERT of one row; the row id is minted per row
AuditLogger_log(w, entry) ==
    [w EXCEPT !.audit = Append(w.audit, [id |-> Len(w.audit) + 1] @@ entry)]

-----------------------------------------------------------------------------
(* FileServiceImpl *)

\* the RPC status of a failed request, and the fields of a response
Status(op, req, code) ==
    [op |-> op, path |-> req.path, token |-> req.approval_token,
     content |-> IF code = "OK" THEN req.content ELSE "", code |-> code, snapshot_id |-> "", sha256 |-> 0,
     existed |-> FALSE, prior |-> ""]

\* the approval step shared by create_file and append_file:
\* "" when the request may proceed, else the status code
ApprovalCode(decision, req, validates) ==
    IF decision.kind = "Deny" THEN "PERMISSION_DENIED"
    ELSE IF decision.kind = "RequireApproval" /\ req.approval_token = ""
    THEN "FAILED_PRECONDITION"
    ELSE IF decision.kind = "RequireApproval" /\ validates
                /\ ~validate_approval(req.approval_token)
    THEN "PERMISSION_DENIED"
    ELSE ""

\* create_file taking the snapshot after the file has been written
create_file_snapshot_late(w, cfg, req) ==
    LET decision == check_file_access(cfg, w.dirs, w.files, req.path, TRUE)
        code     == ApprovalCode(decision, req, TRUE)
        existed  == path_exists(w.dirs, w.files, req.path)
        d2       == create_parent_dirs(w.dirs, w.files, req.path)
        f2       == fs_write(d2.dirs, w.files, req.path, req.content)
        snap     == SnapshotManager_create([w EXCEPT !.dirs = d2.dirs, !.files = f2.files],
                                           <<req.path>>, "pre-create")
        w1       == IF existed /\ d2.ok /\ f2.ok THEN snap.w ELSE w
        snapshot_id == IF existed THEN Some(snap.snapshot.id) ELSE None
        entry    == [create_entry("file", "create") EXCEPT
                        !.details = "Created file: " \o req.path,
                        !.user_approved = (req.approval_token /= ""),
                        !.approval_token = IF req.approval_token = "" THEN None
                                           ELSE Some(req.approval_token),
                        !.snapshot_id = snapshot_id,
                        !.result = "success"]
    IN  IF code /= "" THEN [w |-> w, resp |-> Status("create", req, code)]
        ELSE IF ~d2.ok THEN [w |-> w1, resp |-> Status("create", req, "INTERNAL")]
        ELSE IF ~f2.ok
        THEN [w |-> [w1 EXCEPT !.dirs = d2.dirs], resp |-> Status("create", req, "INTERNAL")]
        ELSE [w |-> AuditLogger_log([w1 EXCEPT !.dirs = d2.dirs, !.files = f2.files], entry),
              resp |-> [Status("create", req, "OK") EXCEPT
                          !.sha256 = compute_sha256(req.content),
                          !.snapshot_id = IF snapshot_id = None THEN "" ELSE snapshot_id[1],
                          !.existed = existed,
                          !.prior = IF path_is_file(w.dirs, w.files, req.path)
                                    THEN fs_read(w.dirs, w.files, req.path).bytes ELSE ""]]

\* FileServiceImpl::create_file
create_file(w, cfg, req) ==
    LET decision == check_file_access(cfg, w.dirs, w.files, req.path, TRUE)
        code     == ApprovalCode(decision, req, TRUE)
        existed  == path_exists(w.dirs, w.files, req.path)
        snap     == SnapshotManager_create(w, <<req.path>>, "pre-create")
        w1       == IF existed THEN snap.w ELSE w
        snapshot_id == IF existed THEN Some(snap.snapshot.id) ELSE None
        d2       == create_parent_dirs(w1.dirs, w1.files, req.path)
        f2       == fs_write(d2.dirs, w1.files, req.path, req.content)
        entry    == [create_entry("file", "create") EXCEPT
                        !.details = "Created file: " \o req.path,
                        !.user_approved = (req.approval_token /= ""),
                        !.approval_token = IF req.approval_token = "" THEN None
                                           ELSE Some(req.approval_token),
                        !.snapshot_id = snapshot_id,
                        !.result = "success"]
    IN  IF code /= "" THEN [w |-> w, resp |-> Status("create", req, code)]
        ELSE IF ~d2.ok THEN [w |-> w1, resp |-> Status("create", req, "INTERNAL")]
        ELSE IF ~f2.ok
        THEN [w |-> [w1 EXCEPT !.dirs = d2.dirs], resp |-> Status("create", req, "INTERNAL")]
        ELSE [w |-> AuditLogger_log([w1 EXCEPT !.dirs = d2.dirs, !.files = f2.files], entry),
              resp |-> [Status("create", req, "OK") EXCEPT
                          !.sha256 = compute_sha256(req.content),
                          !.snapshot_id = IF snapshot_id = None THEN "" ELSE snapshot_id[1],
                          !.existed = existed,
                          !.prior = IF path_is_file(w.dirs, w.files, req.path)
                                    THEN fs_read(w.dirs, w.files, req.path).bytes ELSE ""]]

\* FileServiceImpl::append_file
append_file(w, cfg, req) ==
    LET decision == check_file_access(cfg, w.dirs, w.files, req.path, TRUE)
        code     == ApprovalCode(decision, req, FALSE)
        existed  == path_exists(w.dirs, w.files, req.path)
        snap     == SnapshotManager_create(w, <<req.path>>, "pre-append")
        w1       == IF existed THEN snap.w ELSE w
        snapshot_id == IF existed THEN Some(snap.snapshot.id) ELSE None
        f2       == fs_append(w1.dirs, w1.files, req.path, req.content)
        entry    == [create_entry("file", "append") EXCEPT
                        !.details = "Appended to file: " \o req.path,
                        !.snapshot_id = snapshot_id,
                        !.result = "success"]
    IN  IF code /= "" THEN [w |-> w, resp |-> Status("append", req, code)]
        ELSE IF ~f2.ok THEN [w |-> w1, resp |-> Status("append", req, "INTERNAL")]
        ELSE [w |-> AuditLogger_log([w1 EXCEPT !.files = f2.files], entry),
              resp |-> [Status("append", req, "OK") EXCEPT
                          !.snapshot_id = IF snapshot_id = None THEN "" ELSE snapshot_id[1],
                          !.existed = existed,
                          !.prior = IF path_is_file(w.dirs, w.files, req.path)
                                    THEN fs_read(w.dirs, w.files, req.path).bytes ELSE ""]]

\* the fields of a response of read_file
ReadStatus(req, code) ==
    [op |-> "read", path |-> req.path, token |-> "", code |-> code, content |-> "",
     sha256 |-> 0, size |-> 0, file_len |-> 0]

\* read_file refusing a file of exactly max_file_size bytes
read_file_refuses_limit(w, cfg, req) ==
    LET decision == check_file_access(cfg, w.dirs, w.files, req.path, FALSE)
        metadata == metadata_len(w.dirs, w.files, req.path)
        content  == fs_read(w.dirs, w.files, req.path)
        entry    == [create_entry("file", "read") EXCEPT
                        !.details = "Read file: " \o req.path,
                        !.result = "success"]
    IN  IF decision.kind = "Deny" THEN [w |-> w, resp |-> ReadStatus(req, "PERMISSION_DENIED")]
        ELSE IF ~metadata.ok THEN [w |-> w, resp |-> ReadStatus(req, "NOT_FOUND")]
        ELSE IF metadata.len >= cfg.max_file_size
        THEN [w |-> w, resp |-> [ReadStatus(req, "INVALID_ARGUMENT") EXCEPT
                                    !.file_len = metadata.len]]
        ELSE IF ~content.ok THEN [w |-> w, resp |-> ReadStatus(req, "INTERNAL")]
        ELSE [w |-> AuditLogger_log(w, entry),
              resp |-> [ReadStatus(req, "OK") EXCEPT
                          !.content = content.bytes,
                          !.sha256 = compute_sha256(content.bytes),
                          !.size = metadata.len,
                          !.file_len = metadata.len]]

\* FileServiceImpl::read_file (the contents of the model are ASCII, which
\* String::from_utf8_lossy leaves as they are)
read_file(w, cfg, req) ==
    LET decision == check_file_access(cfg, w.dirs, w.files, req.path, FALSE)
        metadata == metadata_len(w.dirs, w.files, req.path)
        content  == fs_read(w.dirs, w.files, req.path)
        entry    == [create_entry("file", "read") EXCEPT
                        !.details = "Read file: " \o req.path,
                        !.result = "success"]
    IN  IF decision.kind = "Deny" THEN [w |-> w, resp |-> ReadStatus(req, "PERMISSION_DENIED")]
        ELSE IF ~metadata.ok THEN [w |-> w, resp |-> ReadStatus(req, "NOT_FOUND")]
        ELSE IF metadata.len > cfg.max_file_size
        THEN [w |-> w, resp |-> [ReadStatus(req, "INVALID_ARGUMENT") EXCEPT
                                    !.file_len = metadata.len]]
        ELSE IF ~content.ok THEN [w |-> w, resp |-> ReadStatus(req, "INTERNAL")]
        ELSE [w |-> AuditLogger_log(w, entry),
              resp |-> [ReadStatus(req, "OK") EXCEPT
                          !.content = content.bytes,
                          !.sha256 = compute_sha256(content.bytes),
                          !.size = metadata.len,
                          !.file_len = metadata.len]]

\* the fields of a response of move_file and copy_file
TransferStatus(op, req, code) ==
    [op |-> op, from_path |-> req.from_path, to_path |-> req.to_path,
     token |-> req.approval_token, code |-> code, snapshot_id |-> ""]

\* move_file going on without an approval token
move_file_unapproved(w, cfg, req) ==
    LET from_decision == check_file_access(cfg, w.dirs, w.files, req.from_path, TRUE)
        to_decision   == check_file_access(cfg, w.dirs, w.files, req.to_path, TRUE)
        snap     == SnapshotManager_create(w, <<req.from_path>>, "pre-move")
        moved    == fs_rename(snap.w.dirs, snap.w.files, req.from_path, req.to_path)
        entry    == [create_entry("file", "move") EXCEPT
                        !.details = "Moved " \o req.from_path \o " to " \o req.to_path,
                        !.snapshot_id = Some(snap.snapshot.id),
                        !.result = "success"]
    IN  IF from_decision.kind = "Deny"
        THEN [w |-> w, resp |-> TransferStatus("move", req, "PERMISSION_DENIED")]
        ELSE IF to_decision.kind = "Deny"
        THEN [w |-> w, resp |-> TransferStatus("move", req, "PERMISSION_DENIED")]
        ELSE IF ~snap.ok THEN [w |-> snap.w, resp |-> TransferStatus("move", req, "INTERNAL")]
        ELSE IF ~moved.ok THEN [w |-> snap.w, resp |-> TransferStatus("move", req, "INTERNAL")]
        ELSE [w |-> AuditLogger_log([snap.w EXCEPT !.dirs = moved.dirs, !.files = moved.files],
                                    entry),
              resp |-> [TransferStatus("move", req, "OK") EXCEPT
                          !.snapshot_id = snap.snapshot.id]]

\* FileServiceImpl::move_file
move_file(w, cfg, req) ==
    LET from_decision == check_file_access(cfg, w.dirs, w.files, req.from_path, TRUE)
        to_decision   == check_file_access(cfg, w.dirs, w.files, req.to_path, TRUE)
        snap     == SnapshotManager_create(w, <<req.from_path>>, "pre-move")
        moved    == fs_rename(snap.w.dirs, snap.w.files, req.from_path, req.to_path)
        entry    == [create_entry("file", "move") EXCEPT
                        !.details = "Moved " \o req.from_path \o " to " \o req.to_path,
                        !.snapshot_id = Some(snap.snapshot.id),
                        !.result = "success"]
    IN  IF from_decision.kind = "Deny"
        THEN [w |-> w, resp |-> TransferStatus("move", req, "PERMISSION_DENIED")]
        ELSE IF from_decision.kind = "RequireApproval" /\ req.approval_token = ""
        THEN [w |-> w, resp |-> TransferStatus("move", req, "FAILED_PRECONDITION")]
        ELSE IF to_decision.kind = "Deny"
        THEN [w |-> w, resp |-> TransferStatus("move", req, "PERMISSION_DENIED")]
        ELSE IF ~snap.ok THEN [w |-> snap.w, resp |-> TransferStatus("move", req, "INTERNAL")]
        ELSE IF ~moved.ok THEN [w |-> snap.w, resp |-> TransferStatus("move", req, "INTERNAL")]
        ELSE [w |-> AuditLogger_log([snap.w EXCEPT !.dirs = moved.dirs, !.files = moved.files],
                                    entry),
              resp |-> [TransferStatus("move", req, "OK") EXCEPT
                          !.snapshot_id = snap.snapshot.id]]

\* FileServiceImpl::copy_file
copy_file(w, cfg, req) ==
    LET from_decision == check_file_access(cfg, w.dirs, w.files, req.from_path, FALSE)
        to_decision   == check_file_access(cfg, w.dirs, w.files, req.to_path, TRUE)
        copied   == fs_copy(w.dirs, w.files, req.from_path, req.to_path)
        entry    == [create_entry("file", "copy") EXCEPT
                        !.details = "Copied " \o req.from_path \o " to " \o req.to_path,
                        !.result = "success"]
    IN  IF from_decision.kind = "Deny"
        THEN [w |-> w, resp |-> TransferStatus("copy", req, "PERMISSION_DENIED")]
        ELSE IF to_decision.kind = "Deny"
        THEN [w |-> w, resp |-> TransferStatus("copy", req, "PERMISSION_DENIED")]
        ELSE IF to_decision.kind = "RequireApproval" /\ req.approval_token = ""
        THEN [w |-> w, resp |-> TransferStatus("copy", req, "FAILED_PRECONDITION")]
        ELSE IF ~copied.ok THEN [w |-> w, resp |-> TransferStatus("copy", req, "INTERNAL")]
        ELSE [w |-> AuditLogger_log([w EXCEPT !.files = copied.files], entry),
              resp |-> TransferStatus("copy", req, "OK")]

-----------------------------------------------------------------------------
(* GitServiceImpl *)

GitStatus(req, code) ==
    [op |-> "git.commit", repo_path |-> req.repo_path, token |-> req.approval_token,
     code |-> code, commit_hash |-> 0]

\* commit as it would be if a rejected request were written to the audit log
git_commit_logs_rejection(w, cfg, req) ==
    LET decision == check_git_operation(cfg, w.dirs, w.files, req.repo_path, "commit")
        root     == canonicalize(w.dirs, w.files, req.repo_path)
        repo     == w.repos[root]
        staged   == { req.files[i] : i \in 1..Len(req.files) }
        missing  == { f \in staged : (root \o Components(f)) \notin DOMAIN w.files }
        index    == [f \in staged |-> w.files[root \o Components(f)]] @@ repo.index
        commit_id == Len(repo.commits) + 1
        commit   == [id |-> commit_id, message |-> req.message, tree |-> index]
        entry    == [create_entry("git", "commit") EXCEPT
                        !.details = "Git commit: " \o ToString(commit_id) \o " - "
                                    \o req.message,
                        !.user_approved = (req.approval_token /= ""),
                        !.result = "success"]
    IN  IF decision.kind = "Deny"
        THEN [w |-> AuditLogger_log(w, [create_entry("git", "commit") EXCEPT !.result = "denied"]),
              resp |-> GitStatus(req, "PERMISSION_DENIED")]
        ELSE IF decision.kind = "RequireApproval" /\ req.approval_token = ""
        THEN [w |-> AuditLogger_log(w, [create_entry("git", "commit") EXCEPT !.result = "denied"]),
              resp |-> GitStatus(req, "FAILED_PRECONDITION")]
        ELSE IF root \notin DOMAIN w.repos
        THEN [w |-> w, resp |-> GitStatus(req, "NOT_FOUND")]
        ELSE IF missing /= {} THEN [w |-> w, resp |-> GitStatus(req, "INTERNAL")]
        ELSE [w |-> AuditLogger_log(
                        [w EXCEPT !.repos = [w.repos EXCEPT ![root] =
                            [index |-> index, commits |-> Append(repo.commits, commit)]]],
                        entry),
              resp |-> [GitStatus(req, "OK") EXCEPT !.commit_hash = commit_id]]

\* GitServiceImpl::commit.  A repository is the staged index (path in the
\* work tree -> bytes) and the commits of HEAD; index.add_path fails for a
\* path that is no file of the work tree; the id of a commit is its number.
git_commit(w, cfg, req) ==
    LET decision == check_git_operation(cfg, w.dirs, w.files, req.repo_path, "commit")
        root     == canonicalize(w.dirs, w.files, req.repo_path)
        repo     == w.repos[root]
        staged   == { req.files[i] : i \in 1..Len(req.files) }
        missing  == { f \in staged : (root \o Components(f)) \notin DOMAIN w.files }
        index    == [f \in staged |-> w.files[root \o Components(f)]] @@ repo.index
        commit_id == Len(repo.commits) + 1
        commit   == [id |-> commit_id, message |-> req.message, tree |-> index]
        entry    == [create_entry("git", "commit") EXCEPT
                        !.details = "Git commit: " \o ToString(commit_id) \o " - "
                                    \o req.message,
                        !.user_approved = (req.approval_token /= ""),
                        !.result = "success"]
    IN  IF decision.kind = "Deny" THEN [w |-> w, resp |-> GitStatus(req, "PERMISSION_DENIED")]
        ELSE IF decision.kind = "RequireApproval" /\ req.approval_token = ""
        THEN [w |-> w, resp |-> GitStatus(req, "FAILED_PRECONDITION")]
        ELSE IF root \notin DOMAIN w.repos
        THEN [w |-> w, resp |-> GitStatus(req, "NOT_FOUND")]
        ELSE IF missing /= {} THEN [w |-> w, resp |-> GitStatus(req, "INTERNAL")]
        ELSE [w |-> AuditLogger_log(
                        [w EXCEPT !.repos = [w.repos EXCEPT ![root] =
                            [index |-> index, commits |-> Append(repo.commits, commit)]]],
                        entry),
              resp |-> [GitStatus(req, "OK") EXCEPT !.commit_hash = commit_id]]

-----------------------------------------------------------------------------
(* SandboxExecutor and CommandServiceImpl *)

\* args.first().map(|s| s.as_str()) == Some(x)
first_is(args, x) == Len(args) > 0 /\ args[1] = x

\* SandboxExecutor::predict_effects; cwd is None or Some(dir)
predict_effects(command, args, cwd) ==
    LET full_cmd == full_command(command, args)
        effects  ==
            IF command \in {"npm", "pnpm", "yarn"}
            THEN IF first_is(args, "install")
                 THEN <<"Will create/update node_modules folder",
                        "May update package-lock.json or yarn.lock">>
                 ELSE IF first_is(args, "run")
                 THEN <<"Will run npm script: " \o (IF Len(args) > 1 THEN args[2] ELSE "")>>
                 ELSE <<>>
            ELSE IF command = "git"
            THEN IF first_is(args, "commit") THEN <<"Will create a new git commit">>
                 ELSE IF first_is(args, "push")
                 THEN <<"Will push commits to remote repository">>
                 ELSE IF first_is(args, "pull")
                 THEN <<"Will fetch and merge changes from remote">>
                 ELSE IF first_is(args, "checkout")
                 THEN <<"Will switch branches or restore files">>
                 ELSE <<>>
            ELSE IF command = "cargo"
            THEN IF first_is(args, "build")
                 THEN <<"Will compile Rust project", "Will create/update target directory">>
                 ELSE <<>>
            ELSE IF command = "docker"
            THEN IF first_is(args, "build") THEN <<"Will build a Docker image">>
                 ELSE IF first_is(args, "run") THEN <<"Will start a Docker container">>
                 ELSE IF first_is(args, "stop") THEN <<"Will stop running container(s)">>
                 ELSE <<>>
            ELSE <<"Will execute: " \o full_cmd>>
    IN  IF cwd = None THEN effects
        ELSE Append(effects, "Working directory: " \o cwd[1])

\* the programs Command::new finds on the PATH of the broker
Executables == {"git", "rm"}

\* Command::spawn inside cmd.output(): the program must be found and the
\* working directory, when given, must be a directory
can_spawn(w, command, cwd) ==
    /\ command \in Executables
    /\ cwd = None \/ path_is_dir(w.dirs, w.files, cwd[1])

\* SandboxConfig.timeout_secs as CommandServiceImpl::run sets it
effective_timeout(timeout_secs) == IF timeout_secs > 0 THEN timeout_secs ELSE 300

RunStatus(req, decision, code) ==
    [op |-> "run", command |-> req.command, args |-> req.args, cwd |-> req.cwd,
     token |-> req.approval_token, dry_run |-> req.dry_run, decision |-> decision.kind,
     code |-> code, predicted_effects |-> <<>>, exit_code |-> 0, success |-> FALSE]

\* the child process cmd.output() starts
NewChild(req) ==
    [command |-> req.command, args |-> req.args,
     cwd |-> IF req.cwd = "" THEN None ELSE Some(req.cwd),
     timeout_secs |-> effective_timeout(req.timeout_secs),
     state |-> "running", expired |-> FALSE, exit_code |-> 0]

\* run asking for an approval token in a dry run too
command_run_dry_run_gated(w, cfg, req) ==
    LET decision == check_command(cfg, req.command, req.args)
        cwd      == IF req.cwd = "" THEN None ELSE Some(req.cwd)
        effects  == predict_effects(req.command, req.args, cwd)
        command_line == full_command(req.command, req.args)
        entry    == [create_entry("command", "dry_run") EXCEPT
                        !.details = "Dry-run: " \o command_line,
                        !.result = "simulated"]
    IN  IF decision.kind = "Deny"
        THEN [w |-> w, wait |-> 0, resp |-> RunStatus(req, decision, "PERMISSION_DENIED")]
        ELSE IF decision.kind = "RequireApproval" /\ req.approval_token = ""
        THEN [w |-> w, wait |-> 0, resp |-> RunStatus(req, decision, "FAILED_PRECONDITION")]
        ELSE IF req.dry_run
        THEN [w |-> AuditLogger_log(w, entry), wait |-> 0,
              resp |-> [RunStatus(req, decision, "OK") EXCEPT
                          !.predicted_effects = effects, !.success = TRUE]]
        ELSE IF req.approval_token /= "" /\ ~validate_approval(req.approval_token)
        THEN [w |-> w, wait |-> 0, resp |-> RunStatus(req, decision, "PERMISSION_DENIED")]
        ELSE IF ~can_spawn(w, req.command, cwd)
        THEN [w |-> w, wait |-> 0, resp |-> RunStatus(req, decision, "INTERNAL")]
        ELSE [w |-> [w EXCEPT !.children = Append(w.children, NewChild(req))],
              wait |-> Len(w.children) + 1,
              resp |-> [op |-> "run.spawn", command |-> req.command, args |-> req.args,
                        token |-> req.approval_token, dry_run |-> req.dry_run,
                        decision |-> decision.kind]]

\* run starting the child in a dry run too
command_run_dry_run_executes(w, cfg, req) ==
    LET decision == check_command(cfg, req.command, req.args)
        cwd      == IF req.cwd = "" THEN None ELSE Some(req.cwd)
        effects  == predict_effects(req.command, req.args, cwd)
        command_line == full_command(req.command, req.args)
        entry    == [create_entry("command", "dry_run") EXCEPT
                        !.details = "Dry-run: " \o command_line,
                        !.result = "simulated"]
    IN  IF decision.kind = "Deny"
        THEN [w |-> w, wait |-> 0, resp |-> RunStatus(req, decision, "PERMISSION_DENIED")]
        ELSE IF decision.kind = "RequireApproval" /\ ~req.dry_run /\ req.approval_token = ""
        THEN [w |-> w, wait |-> 0, resp |-> RunStatus(req, decision, "FAILED_PRECONDITION")]
        ELSE IF req.dry_run
        THEN [w |-> AuditLogger_log([w EXCEPT !.children =
                                            Append(w.children, NewChild(req))], entry),
              wait |-> 0,
              resp |-> [RunStatus(req, decision, "OK") EXCEPT
                          !.predicted_effects = effects, !.success = TRUE]]
        ELSE IF req.approval_token /= "" /\ ~validate_approval(req.approval_token)
        THEN [w |-> w, wait |-> 0, resp |-> RunStatus(req, decision, "PERMISSION_DENIED")]
        ELSE IF ~can_spawn(w, req.command, cwd)
        THEN [w |-> w, wait |-> 0, resp |-> RunStatus(req, decision, "INTERNAL")]
        ELSE [w |-> [w EXCEPT !.children = Append(w.children, NewChild(req))],
              wait |-> Len(w.children) + 1,
              resp |-> [op |-> "run.spawn", command |-> req.command, args |-> req.args,
                        token |-> req.approval_token, dry_run |-> req.dry_run,
                        decision |-> decision.kind]]

\* CommandServiceImpl::run up to the point where cmd.output() waits for the
\* child: the policy check, the approval check, the whole dry-run path and
\* the spawn.  wait is the number of the child run waits for, 0 when run
\* has returned.
command_run(w, cfg, req) ==
    LET decision == check_command(cfg, req.command, req.args)
        cwd      == IF req.cwd = "" THEN None ELSE Some(req.cwd)
        effects  == predict_effects(req.command, req.args, cwd)
        command_line == full_command(req.command, req.args)
        entry    == [create_entry("command", "dry_run") EXCEPT
                        !.details = "Dry-run: " \o command_line,
                        !.result = "simulated"]
    IN  IF decision.kind = "Deny"
        THEN [w |-> w, wait |-> 0, resp |-> RunStatus(req, decision, "PERMISSION_DENIED")]
        ELSE IF decision.kind = "RequireApproval" /\ ~req.dry_run /\ req.approval_token = ""
        THEN [w |-> w, wait |-> 0, resp |-> RunStatus(req, decision, "FAILED_PRECONDITION")]
        ELSE IF req.dry_run
        THEN [w |-> AuditLogger_log(w, entry), wait |-> 0,
              resp |-> [RunStatus(req, decision, "OK") EXCEPT
                          !.predicted_effects = effects, !.success = TRUE]]
        ELSE IF req.approval_token /= "" /\ ~validate_approval(req.approval_token)
        THEN [w |-> w, wait |-> 0, resp |-> RunStatus(req, decision, "PERMISSION_DENIED")]
        ELSE IF ~can_spawn(w, req.command, cwd)
        THEN [w |-> w, wait |-> 0, resp |-> RunStatus(req, decision, "INTERNAL")]
        ELSE [w |-> [w EXCEPT !.children = Append(w.children, NewChild(req))],
              wait |-> Len(w.children) + 1,
              resp |-> [op |-> "run.spawn", command |-> req.command, args |-> req.args,
                        token |-> req.approval_token, dry_run |-> req.dry_run,
                        decision |-> decision.kind]]

\* CommandServiceImpl::run after cmd.output() has returned the output of
\* the child: the audit row and the response
\* run as it would be if a non-zero exit status were reported as an error
command_run_return_nonzero_is_error(w, req, decision_kind, child) ==
    LET command_line == full_command(req.command, req.args)
        success  == child.exit_code = 0
        entry    == [create_entry("command", "execute") EXCEPT
                        !.details = "Executed: " \o command_line \o " (exit: "
                                    \o ToString(child.exit_code) \o ")",
                        !.user_approved = (req.approval_token /= ""),
                        !.approval_token = IF req.approval_token = "" THEN None
                                           ELSE Some(req.approval_token),
                        !.result = IF success THEN "success" ELSE "failed"]
    IN  IF success
        THEN [w |-> AuditLogger_log(w, entry),
              resp |-> [RunStatus(req, [kind |-> decision_kind], "OK") EXCEPT
                          !.exit_code = child.exit_code, !.success = success]]
        ELSE [w |-> w, resp |-> RunStatus(req, [kind |-> decision_kind], "INTERNAL")]

command_run_return(w, req, decision_kind, child) ==
    LET command_line == full_command(req.command, req.args)
        success  == child.exit_code = 0
        entry    == [create_entry("command", "execute") EXCEPT
                        !.details = "Executed: " \o command_line \o " (exit: "
                                    \o ToString(child.exit_code) \o ")",
                        !.user_approved = (req.approval_token /= ""),
                        !.approval_token = IF req.approval_token = "" THEN None
                                           ELSE Some(req.approval_token),
                        !.result = IF success THEN "success" ELSE "failed"]
    IN  [w |-> AuditLogger_log(w, entry),
         resp |-> [RunStatus(req, [kind |-> decision_kind], "OK") EXCEPT
                     !.exit_code = child.exit_code, !.success = success]]

-----------------------------------------------------------------------------
(* SnapshotServiceImpl *)

SnapStatus(op, code) ==
    [op |-> op, code |-> code, snapshot_id |-> "", targets |-> <<>>, restored |-> {},
     before |-> EmptyMap]

\* SnapshotServiceImpl::create
snapshot_service_create(w, paths, label) ==
    LET r     == SnapshotManager_create(w, paths, label)
        entry == [create_entry("snapshot", "create") EXCEPT
                    !.details = "Created snapshot: " \o r.snapshot.id \o " - " \o label,
                    !.result = "success"]
    IN  IF ~r.ok THEN [w |-> r.w, resp |-> SnapStatus("snapshot.create", "INTERNAL")]
        ELSE [w |-> AuditLogger_log(r.w, entry),
              resp |-> [SnapStatus("snapshot.create", "OK") EXCEPT
                          !.snapshot_id = r.snapshot.id]]

\* SnapshotServiceImpl::restore
snapshot_service_restore(w, snapshot_id, target_paths) ==
    LET targets == IF target_paths = <<>> THEN None ELSE Some(target_paths)
        r       == SnapshotManager_restore(w, snapshot_id, targets)
        entry   == [create_entry("snapshot", "restore") EXCEPT
                      !.details = "Restored snapshot: " \o snapshot_id \o " ("
                                    \o ToString(Cardinality(r.restored)) \o " files)",
                      !.result = "success"]
    IN  IF ~r.ok
        THEN [w |-> r.w, resp |-> [SnapStatus("snapshot.restore", "INTERNAL") EXCEPT
                                     !.snapshot_id = snapshot_id, !.targets = targets]]
        ELSE [w |-> AuditLogger_log(r.w, entry),
              resp |-> [SnapStatus("snapshot.restore", "OK") EXCEPT
                          !.snapshot_id = snapshot_id, !.targets = targets,
                          !.restored = r.restored]]

\* SnapshotServiceImpl::delete
snapshot_service_delete(w, snapshot_id) ==
    LET r     == SnapshotManager_delete(w, snapshot_id)
        entry == [create_entry("snapshot", "delete") EXCEPT
                    !.details = "Deleted snapshot: " \o snapshot_id,
                    !.result = "success"]
    IN  IF ~r.ok
        THEN [w |-> r.w, resp |-> [SnapStatus("snapshot.delete", "INTERNAL") EXCEPT
                                     !.snapshot_id = snapshot_id]]
        ELSE [w |-> AuditLogger_log(r.w, entry),
              resp |-> [SnapStatus("snapshot.delete", "OK") EXCEPT
                          !.snapshot_id = snapshot_id]]

-----------------------------------------------------------------------------
(* Bounds and inputs *)

MaxAudit == 2

MaxLen == 2

\* the configurations the policy engine is evaluated under
ConfigSet == {
    [allowed_paths |-> <<"/tmp/proj">>,
     whitelisted_commands |-> <<"git", "npm">>,
     auto_approve_patterns |-> <<"git status", "git log", "npm list">>,
     sensitive_patterns |-> <<"rm -rf", "format", "git push --force">>,
     max_file_size |-> 1],
    [allowed_paths |-> <<"/tmp/gone", "/tmp/in">>,
     whitelisted_commands |-> <<"git", "rm">>,
     auto_approve_patterns |-> <<"git push">>,
     sensitive_patterns |-> <<"git push --force", "status">>,
     max_file_size |-> 2],
    [allowed_paths |-> <<>>,
     whitelisted_commands |-> <<"npm">>,
     auto_approve_patterns |-> <<>>,
     sensitive_patterns |-> <<>>,
     max_file_size |-> 0] }

\* the configuration the broker runs with
BrokerConfig ==
    [allowed_paths |-> <<"/tmp/proj">>,
     whitelisted_commands |-> <<"git", "npm">>,
     auto_approve_patterns |-> <<"git status", "git log", "npm list">>,
     sensitive_patterns |-> <<"rm -rf", "format", "git push --force">>,
     max_file_size |-> 1]

InitDirs == {<<>>, <<"tmp">>, <<"tmp", "proj">>, <<"tmp", "proj", "Windows">>,
             <<"tmp", "proj2">>, <<"etc">>}

InitFiles == (<<"tmp", "proj", "a.txt">> :> "x")
          @@ (<<"tmp", "proj", "Windows", "w.txt">> :> "x")
          @@ (<<"tmp", "proj2", "s.txt">> :> "y")
          @@ (<<"etc", "passwd">> :> "y")

\* raw paths handed to the policy engine
PolicyPaths == {"/tmp/proj", "/tmp/proj/a.txt", "/tmp/proj/new.txt",
                "/tmp/proj/Windows/w.txt", "/tmp/proj/./a.txt",
                "/tmp/proj2/s.txt", "/tmp/proj/../proj2/s.txt",
                "/tmp/proj/lnk/passwd", "/tmp/in/a.txt", "/tmp/in/Windows/../a.txt",
                "/etc/passwd", "/tmp/proj/a.txt/x", "/tmp", "/"}

Commands == {"git", "npm", "rm", "gi", "git status"}

ArgLists == {<<>>, <<"status">>, <<"status", "-s">>, <<"statusx">>,
             <<"push", "--force">>, <<"push">>, <<"log", "--format=x">>,
             <<"list">>, <<"run", "git status">>, <<"-rf", "/">>, <<"install">>}

GitOperations == {"status", "log", "diff", "branch", "commit", "push", "pull",
                  "checkout", "merge", "push --force", "reset --hard",
                  "Status", "rebase", "push --force-with-lease", ""}

RepoPaths == {"/tmp/proj", "/tmp/proj2", "/tmp/in", "/tmp/nowhere"}

\* raw paths of file requests
FilePaths == {"/tmp/proj/a.txt", "/tmp/in/a.txt", "/tmp/proj/new.txt",
              "/tmp/proj/Windows/w.txt"}

Contents == {"x", "y"}

Tokens == {"", "ok"}

SnapshotPathLists == {<<"/tmp/proj/a.txt">>, <<"/tmp/proj">>}

SnapshotIds == { SnapshotId(n) : n \in 1..(MaxAudit + 1) }

NoHeld == [id |-> "", contents |-> EmptyMap]

\* the callers whose calls may be in progress at the same time
Procs == {1, 2}

Idle == [pc |-> "idle"]

NoTasks == [p \in Procs |-> Idle]

\* callers are interchangeable: a new call is made by the first caller that
\* has no call in progress
CanCall(p) == tasks[p] = Idle /\ \A q \in Procs : q < p => tasks[q] /= Idle

\* /tmp/proj is a git repository with nothing staged and no commit
InitRepos == (<<"tmp", "proj">> :> [index |-> EmptyMap, commits |-> <<>>])

NoResp == [op |-> "none"]

-----------------------------------------------------------------------------
(* The broker *)

Init ==
    /\ config = BrokerConfig
    /\ fsDirs = InitDirs
    /\ fsFiles = InitFiles
    /\ snapshots = EmptyMap
    /\ indexJson = EmptyMap
    /\ snapDirs = {}
    /\ blobs = EmptyMap
    /\ nextUuid = 0
    /\ audit = <<>>
    /\ children = <<>>
    /\ repos = InitRepos
    /\ tasks = NoTasks
    /\ held = NoHeld
    /\ resp = NoResp

SetWorld(w) ==
    /\ fsDirs' = w.dirs
    /\ fsFiles' = w.files
    /\ snapshots' = w.snapshots
    /\ indexJson' = w.indexJson
    /\ snapDirs' = w.snapDirs
    /\ blobs' = w.blobs
    /\ nextUuid' = w.nextUuid
    /\ audit' = w.audit
    /\ children' = w.children
    /\ repos' = w.repos

Budget == Len(audit) < MaxAudit

\* a create request of the file service
CreateFile ==
    /\ Budget
    /\ \E path \in FilePaths, content \in Contents, token \in Tokens :
           \E r \in {create_file(World, config,
                            [path |-> path, content |-> content, approval_token |-> token])} :
               /\ SetWorld(r.w)
               /\ resp' = r.resp
               /\ UNCHANGED <<config, held, tasks>>

\* an append request of the file service
AppendFile ==
    /\ Budget
    /\ \E path \in FilePaths, content \in Contents, token \in Tokens :
           \E r \in {append_file(World, config,
                            [path |-> path, content |-> content, approval_token |-> token])} :
               /\ \A f \in DOMAIN r.w.files : Len(r.w.files[f]) <= MaxLen
               /\ SetWorld(r.w)
               /\ resp' = r.resp
               /\ UNCHANGED <<config, held, tasks>>

\* a create request of the snapshot service; the caller keeps the id and,
\* for comparison, the bytes the captured files hold at this moment
SnapshotCreate ==
    /\ Budget
    /\ \E paths \in SnapshotPathLists :
           \E r \in {snapshot_service_create(World, paths, "manual")} :
               /\ SetWorld(r.w)
               /\ resp' = r.resp
               /\ held' = IF r.resp.code = "OK"
                          THEN [id |-> r.resp.snapshot_id,
                                contents |-> [p \in DOMAIN r.w.snapshots[r.resp.snapshot_id].files
                                                |-> fs_read(fsDirs, fsFiles, p).bytes]]
                          ELSE held
               /\ UNCHANGED <<config, tasks>>

\* a restore request of the snapshot service
SnapshotRestore ==
    /\ Budget
    /\ \E id \in SnapshotIds, target_paths \in {<<>>, <<"/tmp/proj/Windows">>} :
           \E r \in {snapshot_service_restore(World, id, target_paths)} :
               /\ SetWorld(r.w)
               /\ resp' = [r.resp EXCEPT !.before =
                               [p \in r.resp.restored |-> fs_read(fsDirs, fsFiles, p)]]
               /\ UNCHANGED <<config, held, tasks>>

\* a delete request of the snapshot service
SnapshotDelete ==
    /\ Budget
    /\ \E id \in SnapshotIds :
           \E r \in {snapshot_service_delete(World, id)} :
               /\ SetWorld(r.w)
               /\ resp' = r.resp
               /\ UNCHANGED <<config, held, tasks>>

\* the user (or another program) changes the content of a regular file
ExternalWrite ==
    \E f \in DOMAIN fsFiles, content \in Contents :
        /\ path_starts_with(f, <<"tmp", "proj">>)
        /\ fsFiles[f] /= content
        /\ fsFiles' = [fsFiles EXCEPT ![f] = content]
        /\ resp' = [op |-> "external"]
        /\ UNCHANGED <<config, fsDirs, snapshots, indexJson, snapDirs, blobs,
                       nextUuid, audit, children, repos, tasks, held>>

Next ==
    \/ CreateFile
    \/ AppendFile
    \/ SnapshotCreate
    \/ SnapshotRestore
    \/ SnapshotDelete
    \/ ExternalWrite

Spec == Init /\ [][Next]_vars

-----------------------------------------------------------------------------
(* The policy engine on its own: every input under every configuration *)

InitPolicy ==
    /\ config \in ConfigSet
    /\ fsDirs = InitDirs
    /\ fsFiles = InitFiles
    /\ snapshots = EmptyMap
    /\ indexJson = EmptyMap
    /\ snapDirs = {}
    /\ blobs = EmptyMap
    /\ nextUuid = 0
    /\ audit = <<>>
    /\ children = <<>>
    /\ repos = InitRepos
    /\ tasks = NoTasks
    /\ held = NoHeld
    /\ resp = NoResp

PolicyFrame ==
    UNCHANGED <<config, fsDirs, fsFiles, snapshots, indexJson, snapDirs, blobs,
                nextUuid, audit, children, repos, tasks, held>>

CheckFileAccess ==
    \E path \in PolicyPaths, write \in BOOLEAN :
        /\ resp' = [op |-> "check_file_access", path |-> path, write |-> write,
                    decision |-> check_file_access(config, fsDirs, fsFiles, path, write)]
        /\ PolicyFrame

CheckCommand ==
    \E command \in Commands, args \in ArgLists :
        /\ resp' = [op |-> "check_command", command |-> command, args |-> args,
                    decision |-> check_command(config, command, args)]
        /\ PolicyFrame

CheckGitOperation ==
    \E repo_path \in RepoPaths, operation \in GitOperations :
        /\ resp' = [op |-> "check_git_operation", repo_path |-> repo_path,
                    operation |-> operation,
                    decision |-> check_git_operation(config, fsDirs, fsFiles,
                                                     repo_path, operation)]
        /\ PolicyFrame

NextPolicy ==
    \/ CheckFileAccess
    \/ CheckCommand
    \/ CheckGitOperation

SpecPolicy == InitPolicy /\ [][NextPolicy]_vars

-----------------------------------------------------------------------------
(* The SnapshotManager under concurrent callers.  A call is taken in the   *)
(* steps at which another caller can run: the Mutex on the index is held   *)
(* for the insert of create, for the whole of restore, for the removal     *)
(* and the remove_dir_all of delete, for list, for get and for             *)
(* save_index; the captures of create and the file system are not under    *)
(* it.  fs::write of index.json and remove_dir_all can fail.               *)

MaxSnapshots == 2

\* the positions at which a caller holds the Mutex between two steps
LockedPcs == {"restore_files", "delete_dir"}

\* self.snapshots.lock() can be taken by p
LockFree(p) == \A q \in Procs \ {p} : tasks[q].pc \notin LockedPcs

SetTask(p, t) == tasks' = [tasks EXCEPT ![p] = t]

ManagerIds == { SnapshotId(n) : n \in 1..(MaxSnapshots + 1) }

\* create: Uuid::new_v4 and create_dir_all of the snapshot directory
MgrCreateBegin ==
    \E p \in Procs, paths \in SnapshotPathLists :
        /\ CanCall(p)
        /\ nextUuid < MaxSnapshots
        /\ nextUuid' = nextUuid + 1
        /\ snapDirs' = snapDirs \cup {SnapshotId(nextUuid + 1)}
        /\ SetTask(p, [pc |-> "create_files", id |-> SnapshotId(nextUuid + 1),
                       paths |-> paths, label |-> "manual", next |-> 1,
                       files |-> EmptyMap])
        /\ UNCHANGED resp
        /\ UNCHANGED <<config, fsDirs, fsFiles, snapshots, indexJson, blobs, audit,
                       children, repos, held>>

\* create: one round of the loop over paths, snapshot_file for the file or
\* for every regular file WalkDir finds
MgrCreateCapture ==
    \E p \in Procs :
        /\ tasks[p].pc = "create_files"
        /\ tasks[p].next <= Len(tasks[p].paths)
        /\ LET t        == tasks[p]
               captured == CapturedOf(World, t.paths[t.next])
               files    == [q \in captured |-> snapshot_file(World, q, t.id)]
               written  == [k \in { files[q].snapshot_path : q \in captured } |->
                               fs_read(fsDirs, fsFiles,
                                       CHOOSE q \in captured : files[q].snapshot_path = k).bytes]
           IN  /\ blobs' = blobs @@ written
               /\ SetTask(p, [t EXCEPT !.next = t.next + 1, !.files = files @@ t.files])
        /\ UNCHANGED resp
        /\ UNCHANGED <<config, fsDirs, fsFiles, snapshots, indexJson, snapDirs, nextUuid,
                       audit, children, repos, held>>

\* create: self.snapshots.lock().unwrap().insert(id, snapshot.clone())
MgrCreateInsert ==
    \E p \in Procs :
        /\ tasks[p].pc = "create_files"
        /\ tasks[p].next > Len(tasks[p].paths)
        /\ LockFree(p)
        /\ LET t == tasks[p] IN
           /\ snapshots' = (t.id :> [id |-> t.id, label |-> t.label, paths |-> t.paths,
                                     files |-> t.files]) @@ snapshots
           /\ SetTask(p, [pc |-> "create_save", id |-> t.id])
        /\ UNCHANGED resp
        /\ UNCHANGED <<config, fsDirs, fsFiles, indexJson, snapDirs, blobs, nextUuid,
                       audit, children, repos, held>>

\* create: save_index and the return; Err when index.json cannot be written
MgrCreateSave ==
    \E p \in Procs, ok \in BOOLEAN :
        /\ tasks[p].pc = "create_save"
        /\ LockFree(p)
        /\ indexJson' = IF ok THEN save_index(World).indexJson ELSE indexJson
        /\ SetTask(p, Idle)
        /\ resp' = [op |-> "manager.create", ok |-> ok,
                    err |-> IF ok THEN "" ELSE "SnapshotError"]
        /\ UNCHANGED <<config, fsDirs, fsFiles, snapshots, snapDirs, blobs, nextUuid,
                       audit, children, repos, held>>

\* restore: the lock and the lookup; NotFound returns at once
MgrRestoreBegin ==
    \E p \in Procs, id \in ManagerIds, targets \in {None, Some(<<"/tmp/proj/Windows">>)} :
        /\ CanCall(p)
        /\ LockFree(p)
        /\ IF id \notin DOMAIN snapshots
           THEN /\ resp' = [op |-> "manager.restore", ok |-> FALSE, err |-> "NotFound"]
                /\ UNCHANGED tasks
           ELSE /\ SetTask(p, [pc |-> "restore_files", id |-> id,
                               todo |-> { q \in DOMAIN snapshots[id].files :
                                            should_restore(q, targets) },
                               restored |-> {}])
                /\ UNCHANGED resp
        /\ UNCHANGED <<config, fsDirs, fsFiles, snapshots, indexJson, snapDirs, blobs,
                       nextUuid, audit, children, repos, held>>

\* restore: one round of the loop over snapshot.files (HashMap order), or
\* the return when no file is left
MgrRestoreFile ==
    \E p \in Procs :
        /\ tasks[p].pc = "restore_files"
        /\ LET t == tasks[p] IN
           IF t.todo = {}
           THEN /\ SetTask(p, Idle)
                /\ resp' = [op |-> "manager.restore", ok |-> TRUE, err |-> ""]
                /\ UNCHANGED <<fsDirs, fsFiles>>
           ELSE \E q \in t.todo :
                    \E r \in {RestoreFiles(World, snapshots[t.id], {q}, t.restored)} :
                        /\ fsDirs' = r.w.dirs
                        /\ fsFiles' = r.w.files
                        /\ IF r.ok
                           THEN /\ SetTask(p, [t EXCEPT !.todo = t.todo \ {q},
                                                        !.restored = r.restored])
                                /\ UNCHANGED resp
                           ELSE /\ SetTask(p, Idle)
                                /\ resp' = [op |-> "manager.restore", ok |-> FALSE,
                                            err |-> "SnapshotError"]
        /\ UNCHANGED <<config, snapshots, indexJson, snapDirs, blobs, nextUuid, audit,
                       children, repos, held>>

\* the first step of delete leaving the entry in the index
MgrDeleteRemove_keeps_entry ==
    \E p \in Procs, id \in ManagerIds :
        /\ CanCall(p)
        /\ LockFree(p)
        /\ IF id \notin DOMAIN snapshots
           THEN /\ resp' = [op |-> "manager.delete", ok |-> FALSE, err |-> "NotFound"]
                /\ UNCHANGED tasks
           ELSE /\ SetTask(p, [pc |-> "delete_dir", id |-> id])
                /\ UNCHANGED resp
        /\ UNCHANGED <<config, fsDirs, fsFiles, snapshots, indexJson, snapDirs, blobs,
                       nextUuid, audit, children, repos, held>>

\* delete: the lock and snapshots.remove(id); NotFound returns at once
MgrDeleteRemove ==
    \E p \in Procs, id \in ManagerIds :
        /\ CanCall(p)
        /\ LockFree(p)
        /\ IF id \notin DOMAIN snapshots
           THEN /\ resp' = [op |-> "manager.delete", ok |-> FALSE, err |-> "NotFound"]
                /\ UNCHANGED <<tasks, snapshots>>
           ELSE /\ snapshots' = [k \in DOMAIN snapshots \ {id} |-> snapshots[k]]
                /\ SetTask(p, [pc |-> "delete_dir", id |-> id])
                /\ UNCHANGED resp
        /\ UNCHANGED <<config, fsDirs, fsFiles, indexJson, snapDirs, blobs, nextUuid,
                       audit, children, repos, held>>

\* delete: remove_dir_all of the snapshot directory, then drop(snapshots);
\* when it fails the blobs removed so far are gone and delete returns Err
MgrDeleteDir ==
    \E p \in Procs, ok \in BOOLEAN :
        /\ tasks[p].pc = "delete_dir"
        /\ LET id   == tasks[p].id
               mine == { b \in DOMAIN blobs : b[1] = id }
           IN  IF id \notin snapDirs
               THEN /\ ok
                    /\ SetTask(p, [pc |-> "delete_save", id |-> id])
                    /\ UNCHANGED resp
                    /\ UNCHANGED <<snapDirs, blobs>>
               ELSE IF ok
               THEN /\ snapDirs' = snapDirs \ {id}
                    /\ blobs' = [k \in DOMAIN blobs \ mine |-> blobs[k]]
                    /\ SetTask(p, [pc |-> "delete_save", id |-> id])
                    /\ UNCHANGED resp
               ELSE \E gone \in SUBSET mine :
                    /\ blobs' = [k \in DOMAIN blobs \ gone |-> blobs[k]]
                    /\ SetTask(p, Idle)
                    /\ resp' = [op |-> "manager.delete", ok |-> FALSE, err |-> "SnapshotError"]
                    /\ UNCHANGED snapDirs
        /\ UNCHANGED <<config, fsDirs, fsFiles, snapshots, indexJson, nextUuid, audit,
                       children, repos, held>>

\* the last step of delete returning without writing index.json
MgrDeleteSave_skips_write ==
    \E p \in Procs, ok \in BOOLEAN :
        /\ tasks[p].pc = "delete_save"
        /\ LockFree(p)
        /\ UNCHANGED indexJson
        /\ SetTask(p, Idle)
        /\ resp' = [op |-> "manager.delete", ok |-> ok,
                    err |-> IF ok THEN "" ELSE "SnapshotError"]
        /\ UNCHANGED <<config, fsDirs, fsFiles, snapshots, snapDirs, blobs, nextUuid,
                       audit, children, repos, held>>

\* delete: save_index and the return; Err when index.json cannot be written
MgrDeleteSave ==
    \E p \in Procs, ok \in BOOLEAN :
        /\ tasks[p].pc = "delete_save"
        /\ LockFree(p)
        /\ indexJson' = IF ok THEN save_index(World).indexJson ELSE indexJson
        /\ SetTask(p, Idle)
        /\ resp' = [op |-> "manager.delete", ok |-> ok,
                    err |-> IF ok THEN "" ELSE "SnapshotError"]
        /\ UNCHANGED <<config, fsDirs, fsFiles, snapshots, snapDirs, blobs, nextUuid,
                       audit, children, repos, held>>

\* SnapshotManager::list
MgrList ==
    \E p \in Procs :
        /\ CanCall(p)
        /\ LockFree(p)
        /\ resp' = [op |-> "manager.list", ids |-> DOMAIN snapshots]
        /\ UNCHANGED <<config, fsDirs, fsFiles, snapshots, indexJson, snapDirs, blobs,
                       nextUuid, audit, children, repos, tasks, held>>

\* SnapshotManager::get
MgrGet ==
    \E p \in Procs, id \in ManagerIds :
        /\ CanCall(p)
        /\ LockFree(p)
        /\ resp' = [op |-> "manager.get", id |-> id,
                    found |-> id \in DOMAIN snapshots]
        /\ UNCHANGED <<config, fsDirs, fsFiles, snapshots, indexJson, snapDirs, blobs,
                       nextUuid, audit, children, repos, tasks, held>>

NextSnapshots ==
    \/ MgrCreateBegin
    \/ MgrCreateCapture
    \/ MgrCreateInsert
    \/ MgrCreateSave
    \/ MgrRestoreBegin
    \/ MgrRestoreFile
    \/ MgrDeleteRemove
    \/ MgrDeleteDir
    \/ MgrDeleteSave
    \/ MgrList
    \/ MgrGet

SpecSnapshots == Init /\ [][NextSnapshots]_vars

\* the broker process dies at any step and is started again:
\* SnapshotManager::new loads index.json into an empty index
CrashRestart ==
    /\ tasks' = NoTasks
    /\ snapshots' = indexJson
    /\ resp' = [op |-> "restart"]
    /\ UNCHANGED <<config, fsDirs, fsFiles, indexJson, snapDirs, blobs, nextUuid,
                   audit, children, repos, held>>

NextSnapshotsCrash ==
    \/ NextSnapshots
    \/ CrashRestart

SpecSnapshotsCrash == Init /\ [][NextSnapshotsCrash]_vars

-----------------------------------------------------------------------------
(* The file, git and command services of the broker.  A command that is    *)
(* executed is taken in the steps at which its caller waits: run starts    *)
(* the child and blocks in cmd.output() until the child has exited.        *)

\* the commands, arguments and working directories predict_effects is
\* evaluated on
PredictCommands == {"npm", "pnpm", "yarn", "git", "cargo", "docker", "ls"}

PredictArgLists == {<<>>, <<"install">>, <<"install", "left-pad">>, <<"run", "build">>,
                    <<"run">>, <<"commit">>, <<"push">>, <<"build">>, <<"stop">>,
                    <<"-l", "install">>}

PredictCwds == {None, Some("/tmp/proj"), Some("/tmp/nowhere")}

\* a call of SandboxExecutor::predict_effects
PredictEffects ==
    \E command \in PredictCommands, args \in PredictArgLists, cwd \in PredictCwds :
        /\ resp' = [op |-> "predict_effects", command |-> command, args |-> args,
                    cwd |-> cwd, effects |-> predict_effects(command, args, cwd)]
        /\ PolicyFrame

NextPredict == PredictEffects

SpecPredict == Init /\ [][NextPredict]_vars

\* the requests made to CommandService::run
RunRequests ==
    { [command |-> c[1], args |-> c[2], cwd |-> c[3], timeout_secs |-> c[4]] :
        c \in { <<"git", <<"status">>, "", 0>>,
                <<"git", <<"push">>, "/tmp/proj", 5>>,
                <<"git", <<"push">>, "/tmp/nowhere", 5>>,
                <<"npm", <<"install">>, "", 0>>,
                <<"rm", <<"-rf", "/">>, "", 0>> } }

\* a caller may start a run
RunBudget ==
    Len(audit) + Cardinality({ p \in Procs : tasks[p].pc = "run_wait" }) < MaxAudit

\* a run request up to its response or, when a child is started, up to the
\* wait for it
RunBegin ==
    /\ RunBudget
    /\ \E p \in Procs, request \in RunRequests, token \in Tokens, dry_run \in BOOLEAN :
           /\ CanCall(p)
           /\ \E r \in {command_run(World, config,
                            request @@ [approval_token |-> token, dry_run |-> dry_run])} :
                  /\ SetWorld(r.w)
                  /\ resp' = r.resp
                  /\ IF r.wait = 0 THEN UNCHANGED tasks
                     ELSE SetTask(p, [pc |-> "run_wait", child |-> r.wait,
                                      req |-> request @@ [approval_token |-> token,
                                                          dry_run |-> dry_run],
                                      decision |-> r.resp.decision])
           /\ UNCHANGED <<config, held>>

\* a child process exits
ChildExit ==
    \E i \in 1..Len(children), exit_code \in {0, 1} :
        /\ children[i].state = "running"
        /\ children' = [children EXCEPT ![i].state = "exited", ![i].exit_code = exit_code]
        /\ resp' = [op |-> "child.exit"]
        /\ UNCHANGED <<config, fsDirs, fsFiles, snapshots, indexJson, snapDirs, blobs,
                       nextUuid, audit, repos, tasks, held>>

\* timeout_secs have passed since a child was started
DeadlinePasses ==
    \E i \in 1..Len(children) :
        /\ children[i].state = "running"
        /\ ~children[i].expired
        /\ children' = [children EXCEPT ![i].expired = TRUE]
        /\ resp' = [op |-> "clock"]
        /\ UNCHANGED <<config, fsDirs, fsFiles, snapshots, indexJson, snapDirs, blobs,
                       nextUuid, audit, repos, tasks, held>>

\* cmd.output() returns the output of the exited child and run answers
RunReturn ==
    \E p \in Procs :
        /\ tasks[p].pc = "run_wait"
        /\ children[tasks[p].child].state = "exited"
        /\ \E r \in {command_run_return(World, tasks[p].req, tasks[p].decision,
                                        children[tasks[p].child])} :
               /\ SetWorld(r.w)
               /\ resp' = r.resp
        /\ SetTask(p, Idle)
        /\ UNCHANGED <<config, held>>

NextCommand ==
    \/ RunBegin
    \/ ChildExit
    \/ DeadlinePasses
    \/ RunReturn

SpecCommand == Init /\ [][NextCommand]_vars

\* the handler task is scheduled whenever it can go on, and time passes
SpecCommandLive ==
    /\ Init
    /\ [][NextCommand]_vars
    /\ WF_vars(RunReturn)
    /\ WF_vars(DeadlinePasses)

\* a read request of the file service
ReadFile ==
    /\ Budget
    /\ \E path \in FilePaths \cup {"/tmp/proj/b.txt", "/tmp/proj", "/tmp/proj2/s.txt",
                                "/tmp/proj/lnk/passwd"} :
           \E r \in {read_file(World, config, [path |-> path])} :
               /\ SetWorld(r.w)
               /\ resp' = r.resp
               /\ UNCHANGED <<config, held, tasks>>

\* the pairs of paths of move and copy requests
TransferPaths ==
    { <<"/tmp/proj/a.txt", "/tmp/proj/b.txt">>,
      <<"/tmp/proj/b.txt", "/tmp/proj/a.txt">>,
      <<"/tmp/proj/a.txt", "/tmp/proj/new.txt">>,
      <<"/tmp/proj/a.txt", "/tmp/proj/Windows/w.txt">>,
      <<"/tmp/proj2/s.txt", "/tmp/proj/a.txt">>,
      <<"/tmp/in/a.txt", "/tmp/proj/a.txt">> }

\* a move request of the file service
MoveFile ==
    /\ Budget
    /\ \E paths \in TransferPaths, token \in Tokens :
           \E r \in {move_file(World, config,
                       [from_path |-> paths[1], to_path |-> paths[2],
                        approval_token |-> token])} :
               /\ SetWorld(r.w)
               /\ resp' = r.resp
               /\ UNCHANGED <<config, held, tasks>>

\* a copy request of the file service
CopyFile ==
    /\ Budget
    /\ \E paths \in TransferPaths, token \in Tokens :
           \E r \in {copy_file(World, config,
                       [from_path |-> paths[1], to_path |-> paths[2],
                        approval_token |-> token])} :
               /\ SetWorld(r.w)
               /\ resp' = r.resp
               /\ UNCHANGED <<config, held, tasks>>

\* a commit request of the git service
GitCommit ==
    /\ Budget
    /\ \E repo_path \in {"/tmp/proj", "/tmp/proj2"},
          files \in {<<"a.txt">>, <<"gone.txt">>}, token \in Tokens :
           \E r \in {git_commit(World, config,
                       [repo_path |-> repo_path, message |-> "m", files |-> files,
                        approval_token |-> token])} :
               /\ SetWorld(r.w)
               /\ resp' = r.resp
               /\ UNCHANGED <<config, held, tasks>>

\* audit.db is opened as it was left: the log of an earlier run of the broker
PriorAudit ==
    << [id |-> 1] @@ [create_entry("file", "read") EXCEPT
                         !.details = "Read file: /tmp/proj/a.txt",
                         !.result = "success"] >>

\* the broker with a second file in the project directory and an earlier log
InitOps ==
    /\ config = BrokerConfig
    /\ fsDirs = InitDirs
    /\ fsFiles = (<<"tmp", "proj", "b.txt">> :> "yy") @@ InitFiles
    /\ snapshots = EmptyMap
    /\ indexJson = EmptyMap
    /\ snapDirs = {}
    /\ blobs = EmptyMap
    /\ nextUuid = 0
    /\ audit = PriorAudit
    /\ children = <<>>
    /\ repos = InitRepos
    /\ tasks = NoTasks
    /\ held = NoHeld
    /\ resp = NoResp

MaxOps == 1

\* a further request may be made
OpsBudget ==
    Len(audit) - Len(PriorAudit)
        + Cardinality({ p \in Procs : tasks[p].pc = "run_wait" }) < MaxOps

NextOps ==
    \/ OpsBudget /\ CreateFile
    \/ OpsBudget /\ AppendFile
    \/ OpsBudget /\ ReadFile
    \/ OpsBudget /\ MoveFile
    \/ OpsBudget /\ CopyFile
    \/ OpsBudget /\ GitCommit
    \/ OpsBudget /\ RunBegin
    \/ ChildExit
    \/ DeadlinePasses
    \/ RunReturn

SpecOps == InitOps /\ [][NextOps]_vars

-----------------------------------------------------------------------------
(* The mutating requests of the file service in the steps of their         *)
(* handlers: the policy check, the snapshot (the capture of the blobs,     *)
(* then the insert into the index and the write of index.json), the        *)
(* mutation of the file and the audit row.  The capture, the write of      *)
(* index.json and the insert of the audit row can fail.                    *)

\* the requests made to create_file, append_file and move_file
FileRequests ==
    { [op |-> op, path |-> path, to_path |-> "", content |-> content,
       approval_token |-> token] :
        op \in {"create", "append"}, path \in {"/tmp/proj/a.txt", "/tmp/in/a.txt"},
        content \in Contents, token \in Tokens }
    \cup
    { [op |-> "move", path |-> paths[1], to_path |-> paths[2], content |-> "",
       approval_token |-> token] :
        paths \in { <<"/tmp/proj/a.txt", "/tmp/proj/b.txt">>,
                    <<"/tmp/proj/a.txt", "/tmp/proj2/s.txt">> },
        token \in Tokens }

\* the status code of the policy and approval checks of a request, "" when
\* the request may proceed
file_policy(w, cfg, req) ==
    LET decision == check_file_access(cfg, w.dirs, w.files, req.path, TRUE)
    IN  IF req.op = "create" THEN ApprovalCode(decision, req, TRUE)
        ELSE IF req.op = "append" THEN ApprovalCode(decision, req, FALSE)
        ELSE IF ApprovalCode(decision, req, FALSE) /= ""
        THEN ApprovalCode(decision, req, FALSE)
        ELSE IF check_file_access(cfg, w.dirs, w.files, req.to_path, TRUE).kind = "Deny"
        THEN "PERMISSION_DENIED"
        ELSE ""

\* the response of a request
FileStatus(req, code, snapshot_id) ==
    [op |-> req.op, path |-> req.path, to_path |-> req.to_path,
     token |-> req.approval_token, code |-> code,
     snapshot_id |-> IF snapshot_id = None THEN "" ELSE snapshot_id[1]]

\* the label of the snapshot a request takes
file_label(req) == "pre-" \o req.op

\* whether the handler calls self.snapshots.create: move always, create and
\* append when path.exists()
file_takes_snapshot(w, req) ==
    req.op = "move" \/ path_exists(w.dirs, w.files, req.path)

\* the mutation of a request: on Ok the new directories and regular files
file_mutation(w, req) ==
    IF req.op = "create"
    THEN LET d == create_parent_dirs(w.dirs, w.files, req.path)
             f == fs_write(d.dirs, w.files, req.path, req.content)
         IN  IF ~d.ok THEN [ok |-> FALSE, dirs |-> w.dirs, files |-> w.files]
             ELSE IF ~f.ok THEN [ok |-> FALSE, dirs |-> d.dirs, files |-> w.files]
             ELSE [ok |-> TRUE, dirs |-> d.dirs, files |-> f.files]
    ELSE IF req.op = "append"
    THEN LET f == fs_append(w.dirs, w.files, req.path, req.content)
         IN  IF ~f.ok THEN [ok |-> FALSE, dirs |-> w.dirs, files |-> w.files]
             ELSE [ok |-> TRUE, dirs |-> w.dirs, files |-> f.files]
    ELSE LET m == fs_rename(w.dirs, w.files, req.path, req.to_path)
         IN  IF ~m.ok THEN [ok |-> FALSE, dirs |-> w.dirs, files |-> w.files]
             ELSE [ok |-> TRUE, dirs |-> m.dirs, files |-> m.files]

\* the audit row of a request that has mutated
file_entry(req, snapshot_id) ==
    IF req.op = "create"
    THEN [create_entry("file", "create") EXCEPT
            !.details = "Created file: " \o req.path,
            !.user_approved = (req.approval_token /= ""),
            !.approval_token = IF req.approval_token = "" THEN None
                               ELSE Some(req.approval_token),
            !.snapshot_id = snapshot_id,
            !.result = "success"]
    ELSE IF req.op = "append"
    THEN [create_entry("file", "append") EXCEPT
            !.details = "Appended to file: " \o req.path,
            !.snapshot_id = snapshot_id,
            !.result = "success"]
    ELSE [create_entry("file", "move") EXCEPT
            !.details = "Moved " \o req.path \o " to " \o req.to_path,
            !.snapshot_id = snapshot_id,
            !.result = "success"]

\* the audit step failing the request when the row cannot be inserted
file_audit_propagates(w, req, snapshot_id, audit_ok) ==
    [w    |-> IF audit_ok THEN AuditLogger_log(w, file_entry(req, snapshot_id)) ELSE w,
     resp |-> FileStatus(req, IF audit_ok THEN "OK" ELSE "INTERNAL", snapshot_id)]

\* the end of a handler: let _ = self.audit.log(entry), then Ok(response);
\* audit_ok tells whether the INSERT succeeds
file_audit(w, req, snapshot_id, audit_ok) ==
    [w    |-> IF audit_ok THEN AuditLogger_log(w, file_entry(req, snapshot_id)) ELSE w,
     resp |-> FileStatus(req, "OK", snapshot_id)]

\* a further request may be made
FileBudget ==
    /\ nextUuid + Cardinality({ p \in Procs : tasks[p].pc = "file_snapshot" }) < MaxOps
    /\ Len(audit) - Len(PriorAudit) < MaxOps

\* the policy check and the approval check of a request
FilePolicy ==
    /\ FileBudget
    /\ \E p \in Procs, req \in FileRequests :
           /\ CanCall(p)
           /\ \E code \in {file_policy(World, config, req)} :
                  IF code /= ""
                  THEN /\ resp' = FileStatus(req, code, None)
                       /\ UNCHANGED tasks
                  ELSE /\ SetTask(p, [pc |-> "file_snapshot", req |-> req])
                       /\ UNCHANGED resp
    /\ UNCHANGED <<config, fsDirs, fsFiles, snapshots, indexJson, snapDirs, blobs,
                   nextUuid, audit, children, repos, held>>

\* the handler going on to the mutation before the snapshot is in the index
FileSnapshot_mutates_first ==
    \E p \in Procs, ok \in BOOLEAN :
        /\ tasks[p].pc = "file_snapshot"
        /\ LET req == tasks[p].req
               id  == SnapshotId(nextUuid + 1)
               captured == CapturedOf(World, req.path)
               files    == [q \in captured |-> snapshot_file(World, q, id)]
               written  == [k \in { files[q].snapshot_path : q \in captured } |->
                               fs_read(fsDirs, fsFiles,
                                       CHOOSE q \in captured : files[q].snapshot_path = k).bytes]
           IN  IF ~file_takes_snapshot(World, req)
               THEN /\ ok
                    /\ SetTask(p, [pc |-> "file_mutate", req |-> req, snapshot_id |-> None])
                    /\ UNCHANGED <<nextUuid, snapDirs, blobs, resp>>
               ELSE /\ nextUuid' = nextUuid + 1
                    /\ snapDirs' = snapDirs \cup {id}
                    /\ IF ok \/ captured = {}
                       THEN /\ blobs' = blobs @@ written
                            /\ SetTask(p, [pc |-> "file_mutate", req |-> req,
                                           snapshot_id |-> Some(id)])
                            /\ UNCHANGED resp
                       ELSE /\ UNCHANGED blobs
                            /\ SetTask(p, Idle)
                            /\ resp' = FileStatus(req, "INTERNAL", None)
        /\ UNCHANGED <<config, fsDirs, fsFiles, snapshots, indexJson, audit, children,
                       repos, held>>

\* path.exists() and the first half of SnapshotManager::create: the UUID,
\* the snapshot directory and the blobs.  Err when a blob cannot be read or
\* written.
FileSnapshot ==
    \E p \in Procs, ok \in BOOLEAN :
        /\ tasks[p].pc = "file_snapshot"
        /\ LET req == tasks[p].req
               id  == SnapshotId(nextUuid + 1)
               captured == CapturedOf(World, req.path)
               files    == [q \in captured |-> snapshot_file(World, q, id)]
               written  == [k \in { files[q].snapshot_path : q \in captured } |->
                               fs_read(fsDirs, fsFiles,
                                       CHOOSE q \in captured : files[q].snapshot_path = k).bytes]
           IN  IF ~file_takes_snapshot(World, req)
               THEN /\ ok
                    /\ SetTask(p, [pc |-> "file_mutate", req |-> req, snapshot_id |-> None])
                    /\ UNCHANGED <<nextUuid, snapDirs, blobs, resp>>
               ELSE /\ nextUuid' = nextUuid + 1
                    /\ snapDirs' = snapDirs \cup {id}
                    /\ IF ok \/ captured = {}
                       THEN /\ blobs' = blobs @@ written
                            /\ SetTask(p, [pc |-> "file_index", req |-> req, id |-> id,
                                           files |-> files])
                            /\ UNCHANGED resp
                       ELSE /\ UNCHANGED blobs
                            /\ SetTask(p, Idle)
                            /\ resp' = FileStatus(req, "INTERNAL", None)
        /\ UNCHANGED <<config, fsDirs, fsFiles, snapshots, indexJson, audit, children,
                       repos, held>>

\* FileIndex going on to the mutation when index.json could not be written
FileIndex_ignores_failure ==
    \E p \in Procs, ok \in BOOLEAN :
        /\ tasks[p].pc = "file_index"
        /\ LET t == tasks[p] IN
           /\ snapshots' = (t.id :> [id |-> t.id, label |-> file_label(t.req),
                                     paths |-> <<t.req.path>>, files |-> t.files])
                            @@ snapshots
           /\ IF ok THEN indexJson' = snapshots' ELSE UNCHANGED indexJson
           /\ SetTask(p, [pc |-> "file_mutate", req |-> t.req, snapshot_id |-> Some(t.id)])
           /\ UNCHANGED resp
        /\ UNCHANGED <<config, fsDirs, fsFiles, snapDirs, blobs, nextUuid, audit,
                       children, repos, held>>

\* the second half of SnapshotManager::create: the insert into the index
\* and save_index.  Err when index.json cannot be written.
FileIndex ==
    \E p \in Procs, ok \in BOOLEAN :
        /\ tasks[p].pc = "file_index"
        /\ LET t == tasks[p] IN
           /\ snapshots' = (t.id :> [id |-> t.id, label |-> file_label(t.req),
                                     paths |-> <<t.req.path>>, files |-> t.files])
                            @@ snapshots
           /\ IF ok
              THEN /\ indexJson' = snapshots'
                   /\ SetTask(p, [pc |-> "file_mutate", req |-> t.req,
                                  snapshot_id |-> Some(t.id)])
                   /\ UNCHANGED resp
              ELSE /\ UNCHANGED indexJson
                   /\ SetTask(p, Idle)
                   /\ resp' = FileStatus(t.req, "INTERNAL", None)
        /\ UNCHANGED <<config, fsDirs, fsFiles, snapDirs, blobs, nextUuid, audit,
                       children, repos, held>>

\* create_dir_all and fs::write, the append, or fs::rename
FileMutate ==
    \E p \in Procs :
        /\ tasks[p].pc = "file_mutate"
        /\ LET t == tasks[p] IN
           \E m \in {file_mutation(World, t.req)} :
               /\ \A f \in DOMAIN m.files : Len(m.files[f]) <= MaxLen + 1
               /\ fsDirs' = m.dirs
               /\ fsFiles' = m.files
               /\ IF m.ok
                  THEN /\ SetTask(p, [pc |-> "file_audit", req |-> t.req,
                                      snapshot_id |-> t.snapshot_id])
                       /\ UNCHANGED resp
                  ELSE /\ SetTask(p, Idle)
                       /\ resp' = FileStatus(t.req, "INTERNAL", None)
        /\ UNCHANGED <<config, snapshots, indexJson, snapDirs, blobs, nextUuid, audit,
                       children, repos, held>>

\* let _ = self.audit.log(entry) and the response
FileAudit ==
    \E p \in Procs, audit_ok \in BOOLEAN :
        /\ tasks[p].pc = "file_audit"
        /\ \E r \in {file_audit(World, tasks[p].req, tasks[p].snapshot_id, audit_ok)} :
               /\ SetWorld(r.w)
               /\ resp' = r.resp
        /\ SetTask(p, Idle)
        /\ UNCHANGED <<config, held>>

NextFileSteps ==
    \/ FilePolicy
    \/ FileSnapshot
    \/ FileIndex
    \/ FileMutate
    \/ FileAudit

SpecFileSteps == InitOps /\ [][NextFileSteps]_vars

-----------------------------------------------------------------------------
(* The snapshot service called with paths of the caller's choice.          *)

\* the path lists of create requests: a file of the project and two files
\* outside every allowed root
ServicePathLists == {<<"/tmp/proj/a.txt">>, <<"/tmp/proj2/s.txt">>, <<"/etc/passwd">>}

\* a create request of the snapshot service
SnapshotCreateAny ==
    /\ Budget
    /\ \E paths \in ServicePathLists :
           \E r \in {snapshot_service_create(World, paths, "manual")} :
               /\ SetWorld(r.w)
               /\ resp' = r.resp
               /\ UNCHANGED <<config, held, tasks>>

NextSnapshotService ==
    \/ SnapshotCreateAny
    \/ SnapshotRestore
    \/ SnapshotDelete
    \/ ExternalWrite

SpecSnapshotService == Init /\ [][NextSnapshotService]_vars

-----------------------------------------------------------------------------
(* The crash inside a write of index.json.  fs::write opens the file with  *)
(* truncation and then writes the bytes: a process that dies in between    *)
(* leaves a file that is cut short.                                        *)

\* the content of an index.json that was cut short: no JSON document
TornIndex == ("" :> "torn")

\* SnapshotManager::load_snapshots on the content of index.json:
\* serde_json::from_str fails on a text that is no JSON document
load_snapshots(content) ==
    IF content = TornIndex THEN [ok |-> FALSE, snapshots |-> EmptyMap]
    ELSE [ok |-> TRUE, snapshots |-> content]

\* main has returned the error of SnapshotManager::new: no broker runs
Down == [p \in Procs |-> [pc |-> "down"]]

\* the broker process dies, inside a save_index (torn) or elsewhere, and is
\* started again: SnapshotManager::new and its load_snapshots()?
CrashRestartTorn ==
    \E torn \in BOOLEAN :
        /\ torn => \E p \in Procs : tasks[p].pc \in {"create_save", "delete_save"}
        /\ indexJson' = IF torn THEN TornIndex ELSE indexJson
        /\ \E loaded \in {load_snapshots(indexJson')} :
               /\ snapshots' = loaded.snapshots
               /\ tasks' = IF loaded.ok THEN NoTasks ELSE Down
               /\ resp' = [op |-> "restart", ok |-> loaded.ok]
        /\ UNCHANGED <<config, fsDirs, fsFiles, snapDirs, blobs, nextUuid,
                       audit, children, repos, held>>

NextSnapshotsTorn ==
    \/ NextSnapshots
    \/ CrashRestartTorn

SpecSnapshotsTorn == Init /\ [][NextSnapshotsTorn]_vars

-----------------------------------------------------------------------------
(* The restore of the snapshot service in the rounds of its loop: the read  *)
(* of a blob and the write of a file can fail.                              *)

\* SnapshotServiceImpl::restore up to the lookup of SnapshotManager::restore
SvcRestoreBegin ==
    \E p \in Procs, id \in SnapshotIds, target_paths \in {<<>>, <<"/tmp/proj/Windows">>} :
        /\ Budget
        /\ CanCall(p)
        /\ LockFree(p)
        /\ LET targets == IF target_paths = <<>> THEN None ELSE Some(target_paths)
           IN  IF id \notin DOMAIN snapshots
               THEN /\ resp' = [SnapStatus("snapshot.restore", "INTERNAL") EXCEPT
                                  !.snapshot_id = id, !.targets = targets]
                    /\ UNCHANGED tasks
               ELSE /\ SetTask(p, [pc |-> "restore_files", id |-> id, targets |-> targets,
                                   todo |-> { q \in DOMAIN snapshots[id].files :
                                                should_restore(q, targets) },
                                   restored |-> {}])
                    /\ UNCHANGED resp
        /\ UNCHANGED <<config, fsDirs, fsFiles, snapshots, indexJson, snapDirs, blobs,
                       nextUuid, audit, children, repos, held>>

\* one round of the loop of SnapshotManager::restore, which returns the
\* error of a failed round with ?, or the end of the loop: the audit row
\* and the response of SnapshotServiceImpl::restore
SvcRestoreFile ==
    \E p \in Procs, ok \in BOOLEAN :
        /\ tasks[p].pc = "restore_files"
        /\ LET t == tasks[p]
               entry == [create_entry("snapshot", "restore") EXCEPT
                           !.details = "Restored snapshot: " \o t.id \o " ("
                                         \o ToString(Cardinality(t.restored)) \o " files)",
                           !.result = "success"]
               failed == [SnapStatus("snapshot.restore", "INTERNAL") EXCEPT
                            !.snapshot_id = t.id, !.targets = t.targets]
           IN  IF t.todo = {}
               THEN /\ ok
                    /\ SetTask(p, Idle)
                    /\ audit' = AuditLogger_log(World, entry).audit
                    /\ resp' = [SnapStatus("snapshot.restore", "OK") EXCEPT
                                  !.snapshot_id = t.id, !.targets = t.targets,
                                  !.restored = t.restored]
                    /\ UNCHANGED <<fsDirs, fsFiles>>
               ELSE /\ UNCHANGED audit
                    /\ \E q \in t.todo :
                        \E r \in {RestoreFiles(World, snapshots[t.id], {q}, t.restored)} :
                            IF ok /\ r.ok
                            THEN /\ fsDirs' = r.w.dirs
                                 /\ fsFiles' = r.w.files
                                 /\ SetTask(p, [t EXCEPT !.todo = t.todo \ {q},
                                                         !.restored = r.restored])
                                 /\ UNCHANGED resp
                            ELSE /\ UNCHANGED <<fsDirs, fsFiles>>
                                 /\ SetTask(p, Idle)
                                 /\ resp' = failed
        /\ UNCHANGED <<config, snapshots, indexJson, snapDirs, blobs, nextUuid,
                       children, repos, held>>

NextRestoreSteps ==
    \/ (\A p \in Procs : tasks[p] = Idle) /\ SnapshotCreate
    \/ ExternalWrite
    \/ SvcRestoreBegin
    \/ SvcRestoreFile

SpecRestoreSteps == Init /\ [][NextRestoreSteps]_vars

-----------------------------------------------------------------------------
(* AuditLogger::query.  The timestamp column is TEXT: a row holds          *)
(* entry.timestamp.to_rfc3339(), the bounds of a query are bound as        *)
(* to_rfc3339() texts too, and SQLite compares the texts byte by byte.     *)
(* An instant is a number of microseconds after 2026-01-01T00:00:00Z.      *)

\* the characters of an RFC 3339 text in the order of their bytes
AsciiOrder == "+-.0123456789:T"

char_rank(c) == CHOOSE i \in 1..Len(AsciiOrder) : CharAt(AsciiOrder, i) = c

RECURSIVE text_less(_, _)
\* memcmp order of two texts (collation BINARY): a < b
text_less(a, b) ==
    IF b = "" THEN FALSE
    ELSE IF a = "" THEN TRUE
    ELSE IF CharAt(a, 1) /= CharAt(b, 1)
    THEN char_rank(CharAt(a, 1)) < char_rank(CharAt(b, 1))
    ELSE text_less(SubSeq(a, 2, Len(a)), SubSeq(b, 2, Len(b)))

RECURSIVE left_pad(_, _)
left_pad(s, w) == IF Len(s) >= w THEN s ELSE left_pad("0" \o s, w)

\* {:0w} of a number
zero_pad(n, w) == left_pad(ToString(n), w)

\* DateTime<Utc>::to_rfc3339 (SecondsFormat::AutoSi): no fraction, three or
\* six digits of it, as the instant needs
to_rfc3339(t) ==
    LET secs == t \div 1000000
        us   == t % 1000000
        frac == IF us = 0 THEN ""
                ELSE IF us % 1000 = 0 THEN "." \o zero_pad(us \div 1000, 3)
                ELSE "." \o zero_pad(us, 6)
    IN  "2026-01-01T00:00:" \o zero_pad(secs, 2) \o frac \o "+00:00"

\* the instants of the rows and of the bounds of a query
Instants == {0, 500000, 500001}

\* the texts of the instants, and their order, computed once
Rfc3339Table == [t \in Instants |-> to_rfc3339(t)]

TextLessTable ==
    [a \in { Rfc3339Table[t] : t \in Instants } |->
        [b \in { Rfc3339Table[t] : t \in Instants } |-> text_less(a, b)]]

\* the comparison of two timestamp texts by the engine
timestamp_less(a, b) == TextLessTable[a][b]

\* DateTime::parse_from_rfc3339 on the text of a row
parse_from_rfc3339(s) == CHOOSE t \in Instants : Rfc3339Table[t] = s

\* the WHERE clause of query on one row; a filter is None or Some(value)
query_where(row, service, action, from, to) ==
    /\ service = None \/ row.service = service[1]
    /\ action = None \/ row.action = action[1]
    /\ from = None \/ ~timestamp_less(row.timestamp, Rfc3339Table[from[1]])
    /\ to = None \/ ~timestamp_less(Rfc3339Table[to[1]], row.timestamp)

\* the row mapper of query: the AuditEntry of a row
query_entry(row) == [row EXCEPT !.timestamp = parse_from_rfc3339(row.timestamp)]

\* query keeping the rows above the upper bound
AuditLogger_query_ignores_to(rows, service, action, from, to, limit) ==
    LET matching == { i \in 1..Len(rows) :
                        query_where(rows[i], service, action, from, None) }
        k        == IF limit < Cardinality(matching) THEN limit ELSE Cardinality(matching)
        orders   == { o \in [1..k -> matching] :
                        /\ \A i, j \in 1..k : i < j =>
                               /\ o[i] /= o[j]
                               /\ ~timestamp_less(rows[o[i]].timestamp, rows[o[j]].timestamp)
                        /\ \A i \in 1..k, m \in matching :
                               (\A j \in 1..k : o[j] /= m) =>
                                   ~timestamp_less(rows[o[i]].timestamp, rows[m].timestamp) }
    IN  { [i \in 1..k |-> query_entry(rows[o[i]])] : o \in orders }

\* AuditLogger::query: SELECT * FROM audit_log WHERE .. ORDER BY timestamp
\* DESC LIMIT ?.  The order of rows of equal timestamp is the engine's
\* choice: the value is the set of the results it can give.
AuditLogger_query(rows, service, action, from, to, limit) ==
    LET matching == { i \in 1..Len(rows) :
                        query_where(rows[i], service, action, from, to) }
        k        == IF limit < Cardinality(matching) THEN limit ELSE Cardinality(matching)
        orders   == { o \in [1..k -> matching] :
                        /\ \A i, j \in 1..k : i < j =>
                               /\ o[i] /= o[j]
                               /\ ~timestamp_less(rows[o[i]].timestamp, rows[o[j]].timestamp)
                        /\ \A i \in 1..k, m \in matching :
                               (\A j \in 1..k : o[j] /= m) =>
                                   ~timestamp_less(rows[o[i]].timestamp, rows[m].timestamp) }
    IN  { [i \in 1..k |-> query_entry(rows[o[i]])] : o \in orders }

\* the services and actions of the rows of the log
QueryRows == {<<"file", "read">>, <<"file", "create">>, <<"git", "commit">>}

\* a handler logs an entry: create_entry stamps it with Utc::now()
LogEntry ==
    /\ Budget
    /\ \E sa \in QueryRows, now \in Instants :
           audit' = AuditLogger_log(World,
                        [timestamp |-> Rfc3339Table[now]] @@ create_entry(sa[1], sa[2])).audit
    /\ resp' = [op |-> "audit.log"]
    /\ UNCHANGED <<config, fsDirs, fsFiles, snapshots, indexJson, snapDirs, blobs,
                   nextUuid, children, repos, tasks, held>>

\* a call of AuditLogger::query
QueryLog ==
    \E service \in {None, Some("file")}, action \in {None, Some("read")},
       from \in {None, Some(500000)}, to \in {None, Some(500000)},
       limit \in 0..(MaxAudit + 1) :
        /\ \E result \in AuditLogger_query(audit, service, action, from, to, limit) :
               resp' = [op |-> "audit.query", service |-> service, action |-> action,
                        from |-> from, to |-> to, limit |-> limit, result |-> result]
        /\ PolicyFrame

NextQuery ==
    \/ LogEntry
    \/ QueryLog

SpecQuery == Init /\ [][NextQuery]_vars

-----------------------------------------------------------------------------
(* Two requests of the file service on one file, in the steps between      *)
(* which the threads of the runtime interleave.  The handlers take no lock *)
(* of their own: the index Mutex is taken for the insert and again for     *)
(* save_index.  fs::write is File::create, which truncates the file, and   *)
(* then write_all at offset 0 of the handle; an append is one write with   *)
(* O_APPEND.  Every I/O call completes.  held is the record of the calls:  *)
(* the request, the content of the file that its write did away with, and  *)
(* the response.                                                           *)

\* the number of requests made in a behaviour
MaxRequests == 2

\* approved create and append requests on one existing file
RaceRequests ==
    { [op |-> op, path |-> "/tmp/proj/a.txt", to_path |-> "", content |-> content,
       approval_token |-> "ok"] :
        op \in {"create", "append"}, content \in {"y", "zz"} }

InitRace ==
    /\ config = BrokerConfig
    /\ fsDirs = InitDirs
    /\ fsFiles = InitFiles
    /\ snapshots = EmptyMap
    /\ indexJson = EmptyMap
    /\ snapDirs = {}
    /\ blobs = EmptyMap
    /\ nextUuid = 0
    /\ audit = <<>>
    /\ children = <<>>
    /\ repos = InitRepos
    /\ tasks = NoTasks
    /\ held = <<>>
    /\ resp = NoResp

\* write_all of content at offset 0 of a file that holds old
write_at_start(old, content) ==
    IF Len(content) >= Len(old) THEN content
    ELSE content \o SubSeq(old, Len(content) + 1, Len(old))

\* the policy check and the approval check of a request
RacePolicy ==
    /\ Len(held) < MaxRequests
    /\ \E p \in Procs, req \in RaceRequests :
           /\ CanCall(p)
           /\ \E code \in {file_policy(World, config, req)} :
                  /\ held' = Append(held, [req |-> req, code |-> code, replaced |-> None,
                                           snapshot_id |-> None])
                  /\ IF code /= ""
                     THEN /\ resp' = FileStatus(req, code, None)
                          /\ UNCHANGED tasks
                     ELSE /\ SetTask(p, [pc |-> "file_snapshot", call |-> Len(held) + 1,
                                         req |-> req])
                          /\ UNCHANGED resp
    /\ UNCHANGED <<config, fsDirs, fsFiles, snapshots, indexJson, snapDirs, blobs,
                   nextUuid, audit, children, repos>>

\* if path.exists(), the first half of SnapshotManager::create: the id, the
\* directory and snapshot_file of the path
RaceSnapshot ==
    \E p \in Procs :
        /\ tasks[p].pc = "file_snapshot"
        /\ LET t   == tasks[p]
               id  == SnapshotId(nextUuid + 1)
               captured == CapturedOf(World, t.req.path)
               files    == [q \in captured |-> snapshot_file(World, q, id)]
               written  == [k \in { files[q].snapshot_path : q \in captured } |->
                               fs_read(fsDirs, fsFiles,
                                       CHOOSE q \in captured : files[q].snapshot_path = k).bytes]
           IN  IF ~file_takes_snapshot(World, t.req)
               THEN /\ SetTask(p, [pc |-> "file_open", call |-> t.call, req |-> t.req,
                                   snapshot_id |-> None])
                    /\ UNCHANGED <<nextUuid, snapDirs, blobs>>
               ELSE /\ nextUuid' = nextUuid + 1
                    /\ snapDirs' = snapDirs \cup {id}
                    /\ blobs' = blobs @@ written
                    /\ SetTask(p, [pc |-> "file_insert", call |-> t.call, req |-> t.req,
                                   id |-> id, files |-> files])
        /\ UNCHANGED <<config, fsDirs, fsFiles, snapshots, indexJson, audit, children,
                       repos, held, resp>>

\* self.snapshots.lock().unwrap().insert(id, snapshot.clone())
RaceInsert ==
    \E p \in Procs :
        /\ tasks[p].pc = "file_insert"
        /\ LET t == tasks[p] IN
           /\ snapshots' = (t.id :> [id |-> t.id, label |-> file_label(t.req),
                                     paths |-> <<t.req.path>>, files |-> t.files])
                            @@ snapshots
           /\ SetTask(p, [pc |-> "file_save", call |-> t.call, req |-> t.req, id |-> t.id])
        /\ UNCHANGED <<config, fsDirs, fsFiles, indexJson, snapDirs, blobs, nextUuid,
                       audit, children, repos, held, resp>>

\* save_index and the return of SnapshotManager::create
RaceSave ==
    \E p \in Procs :
        /\ tasks[p].pc = "file_save"
        /\ LET t == tasks[p] IN
           /\ indexJson' = save_index(World).indexJson
           /\ SetTask(p, [pc |-> "file_open", call |-> t.call, req |-> t.req,
                          snapshot_id |-> Some(t.id)])
        /\ UNCHANGED <<config, fsDirs, fsFiles, snapshots, snapDirs, blobs, nextUuid,
                       audit, children, repos, held, resp>>

\* create: create_dir_all and the File::create of fs::write, which
\* truncates the file; append: the open, which changes nothing
RaceOpen ==
    \E p \in Procs :
        /\ tasks[p].pc = "file_open"
        /\ LET t   == tasks[p]
               loc == Locate(fsDirs, fsFiles, t.req.path)
           IN  /\ IF t.req.op = "create"
                  THEN /\ fsFiles' = (loc :> "") @@ fsFiles
                       /\ held' = [held EXCEPT ![t.call].replaced =
                                       IF loc \in DOMAIN fsFiles THEN Some(fsFiles[loc])
                                       ELSE None]
                  ELSE UNCHANGED <<fsFiles, held>>
               /\ SetTask(p, [t EXCEPT !.pc = "file_write"])
        /\ UNCHANGED <<config, fsDirs, snapshots, indexJson, snapDirs, blobs, nextUuid,
                       audit, children, repos, resp>>

\* write_all: at offset 0 for create, at the end of the file for append
RaceWrite ==
    \E p \in Procs :
        /\ tasks[p].pc = "file_write"
        /\ LET t   == tasks[p]
               loc == Locate(fsDirs, fsFiles, t.req.path)
               old == IF loc \in DOMAIN fsFiles THEN fsFiles[loc] ELSE ""
           IN  /\ IF t.req.op = "create"
                  THEN /\ fsFiles' = (loc :> write_at_start(old, t.req.content)) @@ fsFiles
                       /\ UNCHANGED held
                  ELSE /\ fsFiles' = (loc :> (old \o t.req.content)) @@ fsFiles
                       /\ held' = [held EXCEPT ![t.call].replaced = Some(old)]
               /\ SetTask(p, [t EXCEPT !.pc = "file_audit"])
        /\ UNCHANGED <<config, fsDirs, snapshots, indexJson, snapDirs, blobs, nextUuid,
                       audit, children, repos, resp>>

\* let _ = self.audit.log(entry) and the response
RaceAudit ==
    \E p \in Procs :
        /\ tasks[p].pc = "file_audit"
        /\ LET t == tasks[p] IN
           /\ audit' = AuditLogger_log(World, file_entry(t.req, t.snapshot_id)).audit
           /\ resp' = FileStatus(t.req, "OK", t.snapshot_id)
           /\ held' = [held EXCEPT ![t.call].code = "OK",
                                   ![t.call].snapshot_id = t.snapshot_id]
        /\ SetTask(p, Idle)
        /\ UNCHANGED <<config, fsDirs, fsFiles, snapshots, indexJson, snapDirs, blobs,
                       nextUuid, children, repos>>

NextRace ==
    \/ RacePolicy
    \/ RaceSnapshot
    \/ RaceInsert
    \/ RaceSave
    \/ RaceOpen
    \/ RaceWrite
    \/ RaceAudit

SpecRace == InitRace /\ [][NextRace]_vars

-----------------------------------------------------------------------------
(* The locks (SpecLocks): the index Mutex of SnapshotManager, the          *)
(* connection Mutex of AuditLogger and the read guard of the               *)
(* configuration, taken and released step by step by the handlers of       *)
(* SnapshotService, by SnapshotManager::get and by read_file.  held is     *)
(* the list of the calls made, which bounds their number.                  *)

\* the guards a caller holds between two steps
LocksOf(t) == IF t.pc = "idle" THEN {} ELSE t.locks

\* Mutex::lock returns only when no guard of the mutex is alive; std::sync::Mutex
\* is not reentrant, so a guard of the caller itself blocks it as well
MutexFree(m) == \A q \in Procs : m \notin LocksOf(tasks[q])

LockIds == { SnapshotId(n) : n \in 1..MaxSnapshots }

LockRequests ==
    { [op |-> o, id |-> ""] : o \in {"create", "list", "read"} }
        \cup { [op |-> o, id |-> i] : o \in {"restore", "delete", "get"}, i \in LockIds }

\* the answer of a call
LockStatus(t, code) == [op |-> "call." \o t.op, id |-> t.id, code |-> code]

\* the audit row the handler of the call writes
lock_entry(t) ==
    [create_entry(IF t.op = "read" THEN "file" ELSE "snapshot", t.op) EXCEPT
        !.details = IF t.op = "create" THEN "Created snapshot: " \o t.id \o " - manual"
                    ELSE IF t.op = "restore" THEN "Restored snapshot: " \o t.id
                    ELSE IF t.op = "delete" THEN "Deleted snapshot: " \o t.id
                    ELSE "Read file: /tmp/proj/a.txt",
        !.result = "success"]

\* a request arrives and its handler starts on a free worker
LkBegin ==
    /\ Len(held) < MaxRequests
    /\ \E p \in Procs, req \in LockRequests :
           /\ CanCall(p)
           /\ req.op = "create"
                  => Cardinality({ n \in 1..Len(held) : held[n].op = "create" }) < MaxSnapshots
           /\ held' = Append(held, req)
           /\ SetTask(p, [pc |-> req.op, op |-> req.op, id |-> req.id, locks |-> {}])
    /\ UNCHANGED <<config, fsDirs, fsFiles, snapshots, indexJson, snapDirs, blobs,
                   nextUuid, audit, children, repos, resp>>

\* create: the id, the directory and snapshot_file of every path, no lock held
LkCreateFiles ==
    \E p \in Procs :
        /\ tasks[p].pc = "create"
        /\ \E id \in {SnapshotId(nextUuid + 1)} :
           \E files \in {[q \in CapturedOf(World, "/tmp/proj/a.txt") |->
                             snapshot_file(World, q, id)]} :
           \E written \in {[k \in { files[q].snapshot_path : q \in DOMAIN files } |->
                               fs_read(fsDirs, fsFiles,
                                       CHOOSE q \in DOMAIN files :
                                           files[q].snapshot_path = k).bytes]} :
               /\ nextUuid' = nextUuid + 1
               /\ snapDirs' = snapDirs \cup {id}
               /\ blobs' = blobs @@ written
               /\ SetTask(p, [pc |-> "create_insert", op |-> "create", id |-> id,
                              locks |-> {}, files |-> files])
        /\ UNCHANGED <<config, fsDirs, fsFiles, snapshots, indexJson, audit, children,
                       repos, held, resp>>

\* the insert of create as it would be if its guard lived until create returns
LkCreateInsert_keeps_guard ==
    \E p \in Procs :
        /\ tasks[p].pc = "create_insert"
        /\ MutexFree("index")
        /\ LET t == tasks[p] IN
           /\ snapshots' = (t.id :> [id |-> t.id, label |-> "manual",
                                     paths |-> <<"/tmp/proj/a.txt">>, files |-> t.files])
                            @@ snapshots
           /\ SetTask(p, [pc |-> "save_index", op |-> t.op, id |-> t.id,
                          locks |-> {"index"}])
        /\ UNCHANGED <<config, fsDirs, fsFiles, indexJson, snapDirs, blobs, nextUuid,
                       audit, children, repos, held, resp>>

\* create: self.snapshots.lock().unwrap().insert(id, snapshot.clone()); the
\* guard is a temporary, dropped at the end of the statement
LkCreateInsert ==
    \E p \in Procs :
        /\ tasks[p].pc = "create_insert"
        /\ MutexFree("index")
        /\ LET t == tasks[p] IN
           /\ snapshots' = (t.id :> [id |-> t.id, label |-> "manual",
                                     paths |-> <<"/tmp/proj/a.txt">>, files |-> t.files])
                            @@ snapshots
           /\ SetTask(p, [pc |-> "save_index", op |-> t.op, id |-> t.id, locks |-> {}])
        /\ UNCHANGED <<config, fsDirs, fsFiles, indexJson, snapDirs, blobs, nextUuid,
                       audit, children, repos, held, resp>>

\* save_index, called by create and by delete: the lock, the write of index.json
\* and the drop of the guard at the return; Err ends the request
LkSaveIndex ==
    \E p \in Procs, ok \in BOOLEAN :
        /\ tasks[p].pc = "save_index"
        /\ MutexFree("index")
        /\ LET t == tasks[p] IN
           IF ok
           THEN /\ indexJson' = save_index(World).indexJson
                /\ SetTask(p, [pc |-> "audit_lock", op |-> t.op, id |-> t.id,
                               locks |-> t.locks])
                /\ UNCHANGED resp
           ELSE /\ UNCHANGED indexJson
                /\ SetTask(p, Idle)
                /\ resp' = LockStatus(t, "INTERNAL")
        /\ UNCHANGED <<config, fsDirs, fsFiles, snapshots, snapDirs, blobs, nextUuid,
                       audit, children, repos, held>>

\* restore: the lock and snapshots.get(id); NotFound returns and drops the guard
LkRestoreLock ==
    \E p \in Procs :
        /\ tasks[p].pc = "restore"
        /\ MutexFree("index")
        /\ LET t == tasks[p] IN
           IF t.id \notin DOMAIN snapshots
           THEN /\ SetTask(p, Idle)
                /\ resp' = LockStatus(t, "INTERNAL")
           ELSE /\ SetTask(p, [t EXCEPT !.pc = "restore_files", !.locks = {"index"}])
                /\ UNCHANGED resp
        /\ UNCHANGED <<config, fsDirs, fsFiles, snapshots, indexJson, snapDirs, blobs,
                       nextUuid, audit, children, repos, held>>

\* restore: the loop over the files under the guard, and the return
LkRestoreFiles ==
    \E p \in Procs :
        /\ tasks[p].pc = "restore_files"
        /\ LET t == tasks[p] IN
           \E r \in {RestoreFiles(World, snapshots[t.id], DOMAIN snapshots[t.id].files, {})} :
               /\ fsDirs' = r.w.dirs
               /\ fsFiles' = r.w.files
               /\ IF r.ok
                  THEN /\ SetTask(p, [t EXCEPT !.pc = "audit_lock", !.locks = {}])
                       /\ UNCHANGED resp
                  ELSE /\ SetTask(p, Idle)
                       /\ resp' = LockStatus(t, "INTERNAL")
        /\ UNCHANGED <<config, snapshots, indexJson, snapDirs, blobs, nextUuid, audit,
                       children, repos, held>>

\* delete: the lock and snapshots.remove(id); NotFound returns and drops the guard
LkDeleteLock ==
    \E p \in Procs :
        /\ tasks[p].pc = "delete"
        /\ MutexFree("index")
        /\ LET t == tasks[p] IN
           IF t.id \notin DOMAIN snapshots
           THEN /\ SetTask(p, Idle)
                /\ resp' = LockStatus(t, "INTERNAL")
                /\ UNCHANGED snapshots
           ELSE /\ snapshots' = [k \in DOMAIN snapshots \ {t.id} |-> snapshots[k]]
                /\ SetTask(p, [t EXCEPT !.pc = "delete_dir", !.locks = {"index"}])
                /\ UNCHANGED resp
        /\ UNCHANGED <<config, fsDirs, fsFiles, indexJson, snapDirs, blobs, nextUuid,
                       audit, children, repos, held>>

\* delete: remove_dir_all under the guard, then drop(snapshots); Err returns
\* and drops the guard too
LkDeleteDir ==
    \E p \in Procs, ok \in BOOLEAN :
        /\ tasks[p].pc = "delete_dir"
        /\ LET t    == tasks[p]
               mine == { b \in DOMAIN blobs : b[1] = t.id }
           IN  IF ok
               THEN /\ snapDirs' = snapDirs \ {t.id}
                    /\ blobs' = [k \in DOMAIN blobs \ mine |-> blobs[k]]
                    /\ SetTask(p, [t EXCEPT !.pc = "save_index", !.locks = {}])
                    /\ UNCHANGED resp
               ELSE /\ t.id \in snapDirs
                    /\ \E gone \in SUBSET mine :
                           blobs' = [k \in DOMAIN blobs \ gone |-> blobs[k]]
                    /\ SetTask(p, Idle)
                    /\ resp' = LockStatus(t, "INTERNAL")
                    /\ UNCHANGED snapDirs
        /\ UNCHANGED <<config, fsDirs, fsFiles, snapshots, indexJson, nextUuid, audit,
                       children, repos, held>>

\* SnapshotService::list: SnapshotManager::list under the guard; no audit row
LkList ==
    \E p \in Procs :
        /\ tasks[p].pc = "list"
        /\ MutexFree("index")
        /\ SetTask(p, Idle)
        /\ resp' = [LockStatus(tasks[p], "OK") EXCEPT !.id = ToString(Cardinality(DOMAIN snapshots))]
        /\ UNCHANGED <<config, fsDirs, fsFiles, snapshots, indexJson, snapDirs, blobs,
                       nextUuid, audit, children, repos, held>>

\* SnapshotManager::get under the guard
LkGet ==
    \E p \in Procs :
        /\ tasks[p].pc = "get"
        /\ MutexFree("index")
        /\ SetTask(p, Idle)
        /\ resp' = LockStatus(tasks[p], IF tasks[p].id \in DOMAIN snapshots THEN "OK"
                                        ELSE "NOT_FOUND")
        /\ UNCHANGED <<config, fsDirs, fsFiles, snapshots, indexJson, snapDirs, blobs,
                       nextUuid, audit, children, repos, held>>

\* read_file: the policy check, whose read guard of the configuration ends with
\* it, then self.config.read().await, whose guard lives to the end of the
\* handler; nothing takes the write lock, so the read lock is always granted
LkReadFile ==
    \E p \in Procs :
        /\ tasks[p].pc = "read"
        /\ LET t == tasks[p]
               decision == check_file_access(config, fsDirs, fsFiles, "/tmp/proj/a.txt", FALSE)
           IN  IF decision.kind = "Deny" \/ ~fs_read(fsDirs, fsFiles, "/tmp/proj/a.txt").ok
               THEN /\ SetTask(p, Idle)
                    /\ resp' = LockStatus(t, "PERMISSION_DENIED")
               ELSE /\ SetTask(p, [t EXCEPT !.pc = "audit_lock", !.locks = {"config"}])
                    /\ UNCHANGED resp
        /\ UNCHANGED <<config, fsDirs, fsFiles, snapshots, indexJson, snapDirs, blobs,
                       nextUuid, audit, children, repos, held>>

\* AuditLogger::log: self.conn.lock()
LkAuditLock ==
    \E p \in Procs :
        /\ tasks[p].pc = "audit_lock"
        /\ MutexFree("audit")
        /\ SetTask(p, [tasks[p] EXCEPT !.pc = "audit_insert",
                                       !.locks = tasks[p].locks \cup {"audit"}])
        /\ UNCHANGED <<config, fsDirs, fsFiles, snapshots, indexJson, snapDirs, blobs,
                       nextUuid, audit, children, repos, held, resp>>

\* AuditLogger::log: the INSERT, the drop of the guard, and the handler's answer
LkAuditInsert ==
    \E p \in Procs :
        /\ tasks[p].pc = "audit_insert"
        /\ audit' = AuditLogger_log(World, lock_entry(tasks[p])).audit
        /\ SetTask(p, Idle)
        /\ resp' = LockStatus(tasks[p], "OK")
        /\ UNCHANGED <<config, fsDirs, fsFiles, snapshots, indexJson, snapDirs, blobs,
                       nextUuid, children, repos, held>>

\* the steps of the calls in progress
LkStep ==
    \/ LkCreateFiles
    \/ LkCreateInsert
    \/ LkSaveIndex
    \/ LkRestoreLock
    \/ LkRestoreFiles
    \/ LkDeleteLock
    \/ LkDeleteDir
    \/ LkList
    \/ LkGet
    \/ LkReadFile
    \/ LkAuditLock
    \/ LkAuditInsert

NextLocks ==
    \/ LkBegin
    \/ LkCreateFiles
    \/ LkCreateInsert
    \/ LkSaveIndex
    \/ LkRestoreLock
    \/ LkRestoreFiles
    \/ LkDeleteLock
    \/ LkDeleteDir
    \/ LkList
    \/ LkGet
    \/ LkReadFile
    \/ LkAuditLock
    \/ LkAuditInsert

\* a worker thread that can take a step of its handler eventually takes one
SpecLocks == InitRace /\ [][NextLocks]_vars /\ WF_vars(LkStep)

-----------------------------------------------------------------------------
(* Properties of the policy engine (SpecPolicy) *)

\* the directories the configured roots denote
AllowedRootLocations ==
    { canonicalize(fsDirs, fsFiles, config.allowed_paths[i]) :
        i \in 1..Len(config.allowed_paths) } \ {Failed}

\* a location and everything above it
Ancestors(c) == { SubSeq(c, 1, k) : k \in 0..Len(c) }

\* the path denotes an existing object at or below an allowed root
LiesUnderAllowedRoot(p) ==
    LET c == canonicalize(fsDirs, fsFiles, p)
    IN  c /= Failed /\ Ancestors(c) \cap AllowedRootLocations /= {}

ContainsIgnoreCase(text, pat) ==
    \E i \in 1..Len(text) :
        /\ i + Len(pat) - 1 <= Len(text)
        /\ \A k \in 1..Len(pat) : ToLowerChar(CharAt(text, i + k - 1)) = CharAt(pat, k)

IsSystemText(p) ==
    \/ ContainsIgnoreCase(p, "system32")
    \/ ContainsIgnoreCase(p, "windows")
    \/ ContainsIgnoreCase(p, "/etc")

IsPrefixOf(pat, text) == \E k \in 0..Len(text) : SubSeq(text, 1, k) = pat

OccursIn(pat, text) ==
    \E i \in 1..(Len(text) + 1), k \in 0..Len(text) : SubSeq(text, i, k) = pat

Whitelisted(command) ==
    command \in { config.whitelisted_commands[i] : i \in 1..Len(config.whitelisted_commands) }

AutoApproved(full) ==
    \E i \in 1..Len(config.auto_approve_patterns) :
        IsPrefixOf(config.auto_approve_patterns[i], full)

Sensitive(full) ==
    \E i \in 1..Len(config.sensitive_patterns) :
        OccursIn(config.sensitive_patterns[i], full)

\* C1: check_file_access denies, for reads and for writes, every path that
\* does not lie at or below an allowed root, a path whose canonicalisation
\* fails included.
PathGating ==
    (resp.op = "check_file_access" /\ ~LiesUnderAllowedRoot(resp.path))
        => resp.decision.kind = "Deny"

\* a path that exists outside every root, and one that does not exist, denied
PathGatingWitness ==
    /\ resp.op = "check_file_access"
    /\ ~LiesUnderAllowedRoot(resp.path)
    /\ resp.path \in {"/tmp/proj/lnk/passwd", "/tmp/proj/new.txt", "/tmp/proj2/s.txt"}
    /\ config.allowed_paths = <<"/tmp/proj">>
    /\ resp.decision.kind = "Deny"

\* C2: a write to a path whose lower-cased text contains "system32",
\* "windows" or "/etc" is denied, inside an allowed root too; the decision
\* is never RequireApproval or Allow.
SystemGuard ==
    (resp.op = "check_file_access" /\ resp.write /\ IsSystemText(resp.path))
        => resp.decision.kind = "Deny"

\* a system-named path inside an allowed root, denied as a system directory
SystemGuardWitness ==
    /\ resp.op = "check_file_access"
    /\ resp.write
    /\ IsSystemText(resp.path)
    /\ LiesUnderAllowedRoot(resp.path)
    /\ resp.decision = Deny("Cannot write to system directories")

\* C3: a command that is no element of the whitelist is denied, whatever
\* its arguments and whatever the auto-approve and sensitive patterns.
WhitelistGate ==
    (resp.op = "check_command" /\ ~Whitelisted(resp.command))
        => resp.decision.kind = "Deny"

\* a command off the whitelist whose command line an auto-approve pattern starts
WhitelistGateWitness ==
    /\ resp.op = "check_command"
    /\ ~Whitelisted(resp.command)
    /\ AutoApproved(full_command(resp.command, resp.args))
    /\ resp.decision.kind = "Deny"

ApprovalReason ==
    (/\ resp.op = "check_command"
     /\ Whitelisted(resp.command)
     /\ ~AutoApproved(full_command(resp.command, resp.args)))
        => LET full == full_command(resp.command, resp.args)
           IN  /\ resp.decision.kind = "RequireApproval"
               /\ Sensitive(full)
                    => resp.decision.reason = "Sensitive command detected: " \o full
               /\ ~Sensitive(full)
                    => resp.decision.reason = "Execute command: " \o full

\* a gated command with the sensitive reason
ApprovalReasonWitness ==
    /\ resp.op = "check_command"
    /\ Whitelisted(resp.command)
    /\ ~AutoApproved(full_command(resp.command, resp.args))
    /\ Sensitive(full_command(resp.command, resp.args))
    /\ resp.decision.kind = "RequireApproval"
    /\ IsPrefixOf("Sensitive command detected: ", resp.decision.reason)

\* C6: check_git_operation denies every operation on a repository outside
\* the allowed roots; inside them status, log, diff and branch are allowed,
\* "push --force" and "reset --hard" are denied, and every other operation
\* string requires approval.
GitOperationTable ==
    resp.op = "check_git_operation" =>
        resp.decision.kind =
            IF ~LiesUnderAllowedRoot(resp.repo_path) THEN "Deny"
            ELSE IF resp.operation \in {"status", "log", "diff", "branch"} THEN "Allow"
            ELSE IF resp.operation \in {"push --force", "reset --hard"} THEN "Deny"
            ELSE "RequireApproval"

\* a dangerous operation on an allowed repository, denied
GitOperationTableWitness ==
    /\ resp.op = "check_git_operation"
    /\ LiesUnderAllowedRoot(resp.repo_path)
    /\ resp.operation = "push --force"
    /\ resp.decision.kind = "Deny"

-----------------------------------------------------------------------------
(* Properties of the file service and the snapshot manager (Spec) *)

\* the place the path names (the file, or the place a new file would take in
\* an existing directory) is at or below an allowed root
TargetUnderAllowedRoot(p) ==
    LET c == Locate(fsDirs, fsFiles, p)
    IN  c /= Failed /\ Ancestors(c) \cap AllowedRootLocations /= {}

\* C7: create on a path under an allowed root that is no system path, called
\* with an empty approval token, fails with FAILED_PRECONDITION, whether the
\* target file exists or not.
CreateWithoutTokenNeedsApproval ==
    (/\ resp.op = "create"
     /\ resp.token = ""
     /\ TargetUnderAllowedRoot(resp.path)
     /\ ~IsSystemText(resp.path))
        => resp.code = "FAILED_PRECONDITION"

\* C8: create with a non-empty approval token on a path under an allowed root
\* that is no system path succeeds, whether the target file existed or not,
\* and afterwards the file exists and holds exactly the requested content.
ApprovedCreateSucceeds ==
    (/\ resp.op = "create"
     /\ resp.token /= ""
     /\ TargetUnderAllowedRoot(resp.path)
     /\ ~IsSystemText(resp.path))
        => /\ resp.code = "OK"
           /\ path_is_file(fsDirs, fsFiles, resp.path)
           /\ fs_read(fsDirs, fsFiles, resp.path).bytes = resp.content

\* C9: when create (append) succeeds on a file that existed before the call,
\* the response carries the id of a snapshot of the index with label
\* "pre-create" ("pre-append") whose FileSnapshot for the path has the hash,
\* the size and the blob bytes of the content the file held before the write.
PreWriteSnapshot ==
    (resp.op \in {"create", "append"} /\ resp.code = "OK" /\ resp.existed)
        => /\ resp.snapshot_id \in DOMAIN snapshots
           /\ LET snapshot == snapshots[resp.snapshot_id] IN
              /\ snapshot.label = (IF resp.op = "create" THEN "pre-create" ELSE "pre-append")
              /\ resp.path \in DOMAIN snapshot.files
              /\ LET file == snapshot.files[resp.path] IN
                 /\ file.sha256 = compute_sha256(resp.prior)
                 /\ file.size = Len(resp.prior)
                 /\ file.snapshot_path = <<resp.snapshot_id, file.sha256>>
                 /\ file.snapshot_path \in DOMAIN blobs
                 /\ blobs[file.snapshot_path] = resp.prior

\* a successful create that replaced other content
PreWriteSnapshotWitness ==
    /\ resp.op = "create"
    /\ resp.code = "OK"
    /\ resp.existed
    /\ resp.prior /= resp.content
    /\ resp.snapshot_id \in DOMAIN snapshots
    /\ blobs[snapshots[resp.snapshot_id].files[resp.path].snapshot_path] = resp.prior

\* C10: after create returned a snapshot, content changes to the captured
\* files followed by a successful restore of it with no target list leave
\* every captured file with the bytes it held when it was captured.
RestoreRoundTrip ==
    (/\ resp.op = "snapshot.restore"
     /\ resp.code = "OK"
     /\ resp.targets = None
     /\ resp.snapshot_id = held.id)
        => \A p \in DOMAIN held.contents :
              fs_read(fsDirs, fsFiles, p) = [ok |-> TRUE, bytes |-> held.contents[p]]

\* a restore that brought back the captured bytes of a file changed since
RestoreRoundTripWitness ==
    /\ resp.op = "snapshot.restore"
    /\ resp.code = "OK"
    /\ resp.targets = None
    /\ resp.snapshot_id = held.id
    /\ \E p \in DOMAIN held.contents :
          /\ p \in resp.restored
          /\ resp.before[p].bytes /= held.contents[p]
          /\ fs_read(fsDirs, fsFiles, p).bytes = held.contents[p]

-----------------------------------------------------------------------------
(* Properties of the SnapshotManager under concurrent callers *)

\* every FileSnapshot of the index has its blob, with the stored hash and size
BlobsOf(index) ==
    \A id \in DOMAIN index : \A q \in DOMAIN index[id].files :
        LET file == index[id].files[q] IN
        /\ file.snapshot_path = <<id, file.sha256>>
        /\ file.snapshot_path \in DOMAIN blobs
        /\ compute_sha256(blobs[file.snapshot_path]) = file.sha256
        /\ Len(blobs[file.snapshot_path]) = file.size

\* C11: in every state the interleavings of create, restore, delete, list
\* and get reach, every FileSnapshot of every snapshot of the in-memory index
\* has a blob at <base>/<id>/<hash> whose bytes hash to the stored hash and
\* whose length is the stored size.
SnapshotIntegrity == BlobsOf(snapshots)

\* two snapshots in the index, one deleted by a caller while the other
\* caller is in a call, the remaining one holding a file
SnapshotIntegrityWitness ==
    /\ \E id \in DOMAIN snapshots : DOMAIN snapshots[id].files /= {}
    /\ \E p \in Procs : tasks[p].pc = "delete_save"
    /\ \E p \in Procs : tasks[p].pc \in {"create_files", "create_save", "restore_files"}
    /\ BlobsOf(snapshots)

\* C12: the blob file exists whenever the persisted index references it:
\* after a crash at any step of create or delete and a restart that reloads
\* index.json, every FileSnapshot of the loaded index has its blob on disk.
LoadedIndexHasBlobs ==
    resp.op = "restart" =>
        \A id \in DOMAIN snapshots : \A q \in DOMAIN snapshots[id].files :
            snapshots[id].files[q].snapshot_path \in DOMAIN blobs

\* C13: the audit log is append-only: every step of every interleaving of
\* the service operations keeps every row of the log as it was and in its
\* place, so a later log holds every row of an earlier one and count()
\* never decreases.
AuditAppendOnly ==
    [][/\ Len(audit') >= Len(audit)
       /\ SubSeq(audit', 1, Len(audit)) = audit]_vars

\* an operation has added its row to the rows of an earlier run
AuditAppendOnlyWitness ==
    /\ Len(audit) = Len(PriorAudit) + 1
    /\ SubSeq(audit, 1, Len(PriorAudit)) = PriorAudit
    /\ audit[Len(audit)] /= PriorAudit[1]
    /\ resp.op \in {"create", "append", "read", "move", "copy", "git.commit", "run"}
    /\ resp.code = "OK"

\* C14: a read of an allowed file whose size is at most config.max_file_size
\* (the size max_file_size itself included) answers OK with the bytes of the
\* file; a read of an allowed file of max_file_size + 1 bytes or more is
\* rejected with INVALID_ARGUMENT, returns no content and adds no audit row.
ReadSizeLimit ==
    [][(/\ resp'.op = "read"
        /\ check_file_access(config, fsDirs, fsFiles, resp'.path, FALSE).kind /= "Deny"
        /\ canonicalize(fsDirs, fsFiles, resp'.path) \in DOMAIN fsFiles)
       => LET bytes == fsFiles[canonicalize(fsDirs, fsFiles, resp'.path)]
          IN  IF Len(bytes) <= config.max_file_size
              THEN /\ resp'.code = "OK"
                   /\ resp'.content = bytes
                   /\ resp'.size = Len(bytes)
              ELSE /\ resp'.code = "INVALID_ARGUMENT"
                   /\ resp'.content = ""
                   /\ audit' = audit]_vars

\* a file of max_file_size + 1 bytes has been refused
ReadSizeLimitWitness ==
    /\ resp.op = "read"
    /\ resp.code = "INVALID_ARGUMENT"
    /\ resp.file_len = config.max_file_size + 1
    /\ canonicalize(fsDirs, fsFiles, resp.path) \in DOMAIN fsFiles
    /\ Len(fsFiles[canonicalize(fsDirs, fsFiles, resp.path)]) = resp.file_len
    /\ audit = PriorAudit

\* C15: an empty approval token never counts as approval: a file create,
\* append, move or copy, a git commit, and a command run with dry_run = false
\* whose policy decision is RequireApproval, made with an empty token, is
\* refused and leaves the files, the repositories, the snapshots, the child
\* processes and the audit log as they were; validate_approval("") is false.
EmptyTokenIsNoApproval ==
    [][/\ ~validate_approval("")
       /\ (\/ /\ resp'.op \in {"create", "append", "move", "copy", "git.commit"}
              /\ resp'.token = ""
           \/ /\ resp'.op \in {"run", "run.spawn"}
              /\ ~resp'.dry_run
              /\ resp'.token = ""
              /\ resp'.decision = "RequireApproval")
          => /\ resp'.op /= "run.spawn"
             /\ resp'.code /= "OK"
             /\ UNCHANGED <<fsDirs, fsFiles, repos, children, snapshots, indexJson,
                            snapDirs, blobs, audit, tasks>>]_vars

\* a move of an existing file of the project to a new name, which a token
\* would have let through, has been refused for its empty token
EmptyTokenIsNoApprovalWitness ==
    /\ resp.op = "move"
    /\ resp.token = ""
    /\ resp.from_path = "/tmp/proj/a.txt"
    /\ resp.to_path = "/tmp/proj/new.txt"
    /\ resp.code = "FAILED_PRECONDITION"
    /\ <<"tmp", "proj", "a.txt">> \in DOMAIN fsFiles
    /\ <<"tmp", "proj", "new.txt">> \notin DOMAIN fsFiles
    /\ snapshots = EmptyMap

\* C16: a run with dry_run = true answers with success, with or without an
\* approval token, for every command for which check_command answers Allow
\* or RequireApproval, and with PERMISSION_DENIED for every command for
\* which check_command answers Deny.
DryRunSucceedsUnlessDenied ==
    (resp.op = "run" /\ resp.dry_run) =>
        IF check_command(config, resp.command, resp.args).kind = "Deny"
        THEN resp.code = "PERMISSION_DENIED"
        ELSE resp.code = "OK" /\ resp.success

\* a dry run of a command that needs approval has succeeded without a token
DryRunSucceedsUnlessDeniedWitness ==
    /\ resp.op = "run"
    /\ resp.dry_run
    /\ resp.token = ""
    /\ check_command(config, resp.command, resp.args).kind = "RequireApproval"
    /\ resp.code = "OK"
    /\ resp.success

\* C17: a successful dry run starts no child process and changes nothing on
\* disk; its only change of state is one new audit row, of service "command"
\* and result "simulated".
DryRunFrame ==
    [][(resp'.op = "run" /\ resp'.dry_run /\ resp'.code = "OK")
       => /\ UNCHANGED <<children, fsDirs, fsFiles, repos, snapshots, indexJson,
                         snapDirs, blobs, tasks, config>>
          /\ Len(audit') = Len(audit) + 1
          /\ SubSeq(audit', 1, Len(audit)) = audit
          /\ audit'[Len(audit')].service = "command"
          /\ audit'[Len(audit')].result = "simulated"]_vars

\* a dry run has succeeded while the child of an earlier run is running: no
\* second child, one audit row
DryRunFrameWitness ==
    /\ resp.op = "run"
    /\ resp.dry_run
    /\ resp.code = "OK"
    /\ Len(children) = 1
    /\ children[1].state = "running"
    /\ Len(audit) = 1
    /\ audit[1].service = "command"
    /\ audit[1].result = "simulated"

\* C18: for npm, pnpm and yarn with first argument "install" the predicted
\* effects have an entry with the substring "node_modules" and an entry with
\* the substring "lockfile"; a working directory, when given, is appended as
\* one further, last entry.
InstallEffectsNameLockfile ==
    (/\ resp.op = "predict_effects"
     /\ resp.command \in {"npm", "pnpm", "yarn"}
     /\ first_is(resp.args, "install"))
    => /\ \E i \in 1..Len(resp.effects) : str_contains(resp.effects[i], "node_modules")
       /\ \E i \in 1..Len(resp.effects) : str_contains(resp.effects[i], "lockfile")
       /\ resp.cwd /= None =>
             /\ Len(resp.effects)
                    = Len(predict_effects(resp.command, resp.args, None)) + 1
             /\ str_contains(resp.effects[Len(resp.effects)], resp.cwd[1])

\* C19: command execution honours timeout_secs: every run request with
\* dry_run = false that has started its child eventually gets its response,
\* also when the child never exits.
RunEventuallyReturns ==
    \A p \in Procs : (tasks[p].pc = "run_wait") ~> (tasks[p].pc = "idle")

\* C20: restore and delete of the snapshot service, called with an id that
\* is not in the index, fail with the RPC status NOT_FOUND and leave the
\* index, the blobs and the file system as they were.
AbsentSnapshotIsNotFound ==
    [][(/\ resp'.op \in {"snapshot.restore", "snapshot.delete"}
        /\ resp'.snapshot_id \notin DOMAIN snapshots)
       => /\ resp'.code = "NOT_FOUND"
          /\ UNCHANGED <<snapshots, indexJson, snapDirs, blobs, fsDirs, fsFiles>>]_vars

-----------------------------------------------------------------------------
(* Properties of the handlers of the file service in steps (SpecFileSteps) *)

\* the positions a handler can take next
FileStepsAfter(pc) ==
    IF pc = "idle" THEN {"file_snapshot"}
    ELSE IF pc = "file_snapshot" THEN {"file_index", "file_mutate", "idle"}
    ELSE IF pc = "file_index" THEN {"file_mutate", "idle"}
    ELSE IF pc = "file_mutate" THEN {"file_audit", "idle"}
    ELSE {"idle"}

\* C21: within one create, append or move request the steps are taken in
\* the order policy decision, snapshot (its index write included), mutation,
\* audit row: a handler starts only on a passed policy check, the files
\* change only in the mutation step and only with the snapshot of the
\* request in the index and in index.json, and the audit row is added only
\* in the step after the mutation.
FileStepOrder ==
    [][/\ \A p \in Procs :
            /\ tasks'[p] = tasks[p] \/ tasks'[p].pc \in FileStepsAfter(tasks[p].pc)
            /\ (tasks[p].pc = "idle" /\ tasks'[p].pc = "file_snapshot")
                   => file_policy(World, config, tasks'[p].req) = ""
       /\ (nextUuid' /= nextUuid \/ snapDirs' /= snapDirs \/ blobs' /= blobs)
              => /\ \E p \in Procs : tasks[p].pc = "file_snapshot"
                 /\ UNCHANGED <<fsDirs, fsFiles, audit>>
       /\ (snapshots' /= snapshots \/ indexJson' /= indexJson)
              => /\ \E p \in Procs : tasks[p].pc = "file_index"
                 /\ UNCHANGED <<fsDirs, fsFiles, audit>>
       /\ (fsFiles' /= fsFiles \/ fsDirs' /= fsDirs)
              => /\ \E p \in Procs :
                        /\ tasks[p].pc = "file_mutate"
                        /\ tasks'[p].pc = "file_audit"
                        /\ tasks[p].req.op = "move" => tasks[p].snapshot_id /= None
                        /\ tasks[p].snapshot_id /= None =>
                               /\ tasks[p].snapshot_id[1] \in DOMAIN snapshots
                               /\ tasks[p].snapshot_id[1] \in DOMAIN indexJson
                               /\ indexJson[tasks[p].snapshot_id[1]].paths
                                      = <<tasks[p].req.path>>
                 /\ UNCHANGED audit
       /\ audit' /= audit
              => /\ \E p \in Procs : tasks[p].pc = "file_audit" /\ tasks'[p] = Idle
                 /\ UNCHANGED <<fsDirs, fsFiles, snapshots, indexJson, blobs>>]_vars

\* a create over an existing file has taken its snapshot and written the
\* file, and its audit row is still to come
FileStepOrderWitness ==
    \E p \in Procs :
        /\ tasks[p].pc = "file_audit"
        /\ tasks[p].req.op = "create"
        /\ tasks[p].snapshot_id /= None
        /\ tasks[p].snapshot_id[1] \in DOMAIN indexJson
        /\ fs_read(fsDirs, fsFiles, tasks[p].req.path).bytes = tasks[p].req.content
        /\ blobs[indexJson[tasks[p].snapshot_id[1]].files[tasks[p].req.path].snapshot_path]
               /= tasks[p].req.content
        /\ audit = PriorAudit

-----------------------------------------------------------------------------
(* Properties of the services as a whole *)

\* C22: no operation writes or captures a file without a policy check on
\* its path: every file a create of the snapshot service captures and every
\* file a restore of the snapshot service writes lies under an allowed root.
SnapshotServiceIsMediated ==
    [][/\ (resp'.op = "snapshot.create" /\ resp'.code = "OK")
              => \A p \in DOMAIN snapshots'[resp'.snapshot_id].files :
                     is_path_allowed(config, fsDirs, fsFiles, p)
       /\ (resp'.op = "snapshot.restore" /\ resp'.code = "OK")
              => \A p \in resp'.restored :
                     is_path_allowed(config, fsDirs, fsFiles, p)]_vars

\* C23: a create, append, move or copy of the file service that replaces or
\* removes the content of a file has taken a snapshot holding that content
\* before: the destination of a move or copy included.
ReplacedContentIsCaptured ==
    [][(resp'.op \in {"create", "append", "move", "copy"} /\ resp'.code = "OK")
          => \A f \in DOMAIN fsFiles :
                 (f \notin DOMAIN fsFiles' \/ fsFiles'[f] /= fsFiles[f])
                     => \E id \in DOMAIN snapshots' \ DOMAIN snapshots :
                            \E p \in DOMAIN snapshots'[id].files :
                                /\ canonicalize(fsDirs, fsFiles, p) = f
                                /\ blobs'[snapshots'[id].files[p].snapshot_path]
                                       = fsFiles[f]]_vars

\* C24: when the snapshot a file request takes before its mutation fails,
\* in the capture of the blobs or in the write of index.json, the request
\* returns an error and the file system is left as it was.
SnapshotFailureFailsRequest ==
    [][\A p \in Procs :
          (/\ tasks'[p] /= tasks[p]
           /\ \/ /\ tasks[p].pc = "file_snapshot"
                 /\ CapturedOf(World, tasks[p].req.path) /= {}
                 /\ nextUuid' /= nextUuid /\ blobs' = blobs
              \/ tasks[p].pc = "file_index" /\ indexJson' = indexJson)
              => /\ tasks'[p] = Idle
                 /\ resp' = FileStatus(tasks[p].req, "INTERNAL", None)
                 /\ UNCHANGED <<fsDirs, fsFiles, audit>>]_vars

\* index.json could not be written for the snapshot of a create: the
\* request has failed and the file holds what it held
SnapshotFailureFailsRequestWitness ==
    /\ resp.op = "create" /\ resp.code = "INTERNAL"
    /\ \A p \in Procs : tasks[p] = Idle
    /\ "snap-1" \in DOMAIN snapshots /\ "snap-1" \notin DOMAIN indexJson
    /\ fsFiles = (<<"tmp", "proj", "b.txt">> :> "yy") @@ InitFiles
    /\ audit = PriorAudit

EveryRequestIsAudited ==
    [][(/\ resp' /= resp
        /\ resp'.op \in {"create", "append", "read", "move", "copy", "git.commit", "run"})
          => Len(audit') = Len(audit) + 1]_vars

\* C27: the audit row of an executed create, append, move, copy, commit or
\* command carries the approval of its request: user_approved is true and
\* approval_token is the token when the request had one, false and absent
\* when it had none.
ApprovalIsRecorded ==
    [][(/\ Len(audit') = Len(audit) + 1
        /\ audit'[Len(audit')].action
               \in {"create", "append", "move", "copy", "commit", "execute"})
          => LET row == audit'[Len(audit')]
             IN  /\ row.user_approved = (resp'.token /= "")
                 /\ row.approval_token = IF resp'.token = "" THEN None
                                         ELSE Some(resp'.token)]_vars

-----------------------------------------------------------------------------
(* Properties of the snapshot index across a crash (SpecSnapshotsTorn) *)

\* C28: when the process dies at any point of a create or a delete and is
\* started again, the new SnapshotManager starts, its index is what the
\* last completed write of index.json held, and a create whose own write
\* of the index did not complete is not in it.
CrashDurableIndex ==
    [][(/\ resp'.op = "restart"
        /\ \A p \in Procs : tasks'[p].pc \in {"idle", "down"})
          => /\ resp'.ok
             /\ snapshots' = indexJson
             /\ \A p \in Procs :
                    tasks[p].pc \in {"create_files", "create_save"}
                        => tasks[p].id \notin DOMAIN snapshots']_vars

-----------------------------------------------------------------------------
(* Properties of delete and restore of the SnapshotManager *)

\* the blob files of the snapshots other than id
OtherBlobs(b, id) == [k \in { x \in DOMAIN b : x[1] /= id } |-> b[k]]

\* C29: a delete takes exactly its snapshot away: the entry leaves the
\* index and nothing else does, the directory and its blobs go and no other
\* blob does, and when delete returns Ok the snapshot is in neither the
\* index (get, list), the snapshot directory nor index.json.  A delete of
\* an id that is not in the index returns NotFound and changes nothing.
DeleteRemovesItsSnapshot ==
    [][/\ \A p \in Procs :
           /\ (tasks[p] = Idle /\ tasks'[p].pc = "delete_dir")
                  => /\ snapshots' = [k \in DOMAIN snapshots \ {tasks'[p].id} |->
                                         snapshots[k]]
                     /\ UNCHANGED <<snapDirs, blobs, fsDirs, fsFiles>>
           /\ (tasks[p].pc = "delete_dir" /\ tasks'[p].pc = "delete_save")
                  => /\ snapDirs' = snapDirs \ {tasks[p].id}
                     /\ blobs' = OtherBlobs(blobs, tasks[p].id)
                     /\ UNCHANGED <<snapshots, fsDirs, fsFiles>>
           /\ (tasks[p].pc = "delete_save" /\ tasks'[p] = Idle /\ resp'.ok)
                  => /\ tasks[p].id \notin DOMAIN snapshots'
                     /\ tasks[p].id \notin snapDirs'
                     /\ tasks[p].id \notin DOMAIN indexJson'
                     /\ \A k \in DOMAIN blobs' : k[1] /= tasks[p].id
                     /\ UNCHANGED <<snapshots, snapDirs, blobs, fsDirs, fsFiles>>
       /\ (resp'.op = "manager.delete" /\ resp'.err = "NotFound" /\ tasks' = tasks)
              => UNCHANGED <<snapshots, indexJson, snapDirs, blobs, fsDirs, fsFiles>>]_vars

\* the first of two snapshots has been deleted: the second is whole
DeleteRemovesItsSnapshotWitness ==
    /\ resp.op = "manager.delete" /\ resp.ok
    /\ \A p \in Procs : tasks[p] = Idle
    /\ "snap-1" \notin DOMAIN snapshots \cup DOMAIN indexJson \cup snapDirs
    /\ "snap-2" \in DOMAIN snapshots /\ "snap-2" \in DOMAIN indexJson
    /\ snapshots["snap-2"].files /= EmptyMap
    /\ \A q \in DOMAIN snapshots["snap-2"].files :
           snapshots["snap-2"].files[q].snapshot_path \in DOMAIN blobs

\* C30: a restore writes exactly the stored files it selects, every stored
\* file when no target is given and else those under some target; each of
\* them holds the bytes of its blob afterwards, every other file is as it
\* was, and the paths returned are the selected ones.
RestoreWritesSelected ==
    [][(/\ Len(audit') = Len(audit) + 1
        /\ audit'[Len(audit')].action = "restore")
          => LET stored   == snapshots[resp'.snapshot_id].files
                 selected == { p \in DOMAIN stored :
                                 \/ resp'.targets = None
                                 \/ \E i \in 1..Len(resp'.targets[1]) :
                                        path_starts_with(Components(p),
                                            Components(resp'.targets[1][i])) }
                 written  == { Locate(fsDirs, fsFiles, p) : p \in selected }
             IN  /\ resp'.op = "snapshot.restore" /\ resp'.code = "OK"
                 /\ resp'.restored = selected
                 /\ \A p \in selected :
                        fsFiles'[Locate(fsDirs, fsFiles, p)] = blobs[stored[p].snapshot_path]
                 /\ DOMAIN fsFiles' = DOMAIN fsFiles \cup written
                 /\ \A f \in DOMAIN fsFiles \ written : fsFiles'[f] = fsFiles[f]]_vars

\* a restore with a target directory has put back the one stored file under
\* it and has left alone a stored file outside it that had changed too
RestoreWritesSelectedWitness ==
    /\ resp.op = "snapshot.restore" /\ resp.code = "OK"
    /\ resp.targets = Some(<<"/tmp/proj/Windows">>)
    /\ resp.restored = {"/tmp/proj/Windows/w.txt"}
    /\ resp.before["/tmp/proj/Windows/w.txt"].bytes
           /= fsFiles[<<"tmp", "proj", "Windows", "w.txt">>]
    /\ resp.snapshot_id \in DOMAIN snapshots
    /\ "/tmp/proj/a.txt" \in DOMAIN snapshots[resp.snapshot_id].files
    /\ fsFiles[<<"tmp", "proj", "a.txt">>]
           /= blobs[snapshots[resp.snapshot_id].files["/tmp/proj/a.txt"].snapshot_path]

-----------------------------------------------------------------------------
(* Properties of a restore that fails (SpecRestoreSteps) *)

\* C31: a restore that fails after it has written some files answers with
\* the paths it has written.
FailedRestoreReportsWritten ==
    [][\A p \in Procs :
          (/\ tasks[p].pc = "restore_files"
           /\ tasks'[p] = Idle
           /\ resp'.code /= "OK")
              => resp'.restored = tasks[p].restored]_vars

-----------------------------------------------------------------------------
(* Properties of the queries of the audit log (SpecQuery) *)

\* the rows of the log that pass the filters of the query of resp, by
\* service, by action and by the instants of their timestamps
QueryMatching ==
    { i \in 1..Len(audit) :
        /\ resp.service = None \/ audit[i].service = resp.service[1]
        /\ resp.action = None \/ audit[i].action = resp.action[1]
        /\ resp.from = None \/ parse_from_rfc3339(audit[i].timestamp) >= resp.from[1]
        /\ resp.to = None \/ parse_from_rfc3339(audit[i].timestamp) <= resp.to[1] }

\* C32: a query returns rows that pass every filter it was given, each
\* once, latest first, no more than limit of them, all of the passing rows
\* when limit allows it and else the latest ones.
QueryReturnsFilteredLatest ==
    resp.op = "audit.query"
        => LET result == resp.result
               ids    == { result[i].id : i \in 1..Len(result) }
           IN  /\ Len(result) <= resp.limit
               /\ Len(result) = IF resp.limit < Cardinality(QueryMatching)
                                THEN resp.limit ELSE Cardinality(QueryMatching)
               /\ Cardinality(ids) = Len(result)
               /\ ids \subseteq QueryMatching
               /\ \A i \in 1..Len(result) :
                      result[i] = query_entry(audit[result[i].id])
               /\ \A i, j \in 1..Len(result) :
                      i < j => result[i].timestamp >= result[j].timestamp
               /\ \A m \in QueryMatching \ ids, i \in 1..Len(result) :
                      result[i].timestamp >= parse_from_rfc3339(audit[m].timestamp)

\* a query with both bounds and a limit of one over a log of two rows
\* inside the bounds and of equal second, the older one logged last
QueryReturnsFilteredLatestWitness ==
    /\ resp.op = "audit.query"
    /\ resp.from /= None /\ resp.to /= None /\ resp.limit = 1
    /\ Len(audit) = 2
    /\ parse_from_rfc3339(audit[1].timestamp) = 500001
    /\ parse_from_rfc3339(audit[2].timestamp) = 500000
    /\ Len(resp.result) = 1 /\ resp.result[1].id = 2

-----------------------------------------------------------------------------
(* Properties of two requests on one file (SpecRace) *)

\* both calls have been made, both are creates, and both have returned
TwoCreatesDone ==
    /\ Len(held) = MaxRequests
    /\ \A n \in 1..MaxRequests : held[n].req.op = "create" /\ held[n].code /= ""
    /\ \A p \in Procs : tasks[p] = Idle

\* C33: of two approved creates on one existing file none fails, and when
\* both have returned the file holds the content of one of them, the log
\* has a success row for each, and their snapshot ids name two snapshots of
\* the index whose blobs match the hashes stored for them.
TwoCreatesLastWriteWins ==
    /\ \A n \in 1..Len(held) : held[n].req.op = "create" => held[n].code \in {"", "OK"}
    /\ TwoCreatesDone
           => /\ fsFiles[<<"tmp", "proj", "a.txt">>]
                     \in { held[n].req.content : n \in 1..MaxRequests }
              /\ Len(audit) = MaxRequests
              /\ \A i \in 1..Len(audit) : audit[i].result = "success"
              /\ held[1].snapshot_id /= None /\ held[2].snapshot_id /= None
              /\ held[1].snapshot_id /= held[2].snapshot_id
              /\ \A n \in 1..MaxRequests :
                     /\ held[n].snapshot_id[1] \in DOMAIN snapshots
                     /\ held[n].snapshot_id[1] \in DOMAIN indexJson
                     /\ \A q \in DOMAIN snapshots[held[n].snapshot_id[1]].files :
                            LET f == snapshots[held[n].snapshot_id[1]].files[q]
                            IN  /\ f.snapshot_path \in DOMAIN blobs
                                /\ compute_sha256(blobs[f.snapshot_path]) = f.sha256

\* C34: a command that was run and whose child exited, with whatever exit status,
\* is answered OK with the child's exit code and success = (exit code is 0), and
\* its audit row says "success" or "failed" accordingly; the only INTERNAL answer
\* of run is the one for a child that could not be spawned.
NonZeroExitIsNotAnError ==
    [][/\ \A p \in Procs :
              (tasks[p].pc = "run_wait" /\ tasks'[p] = Idle) =>
                  LET child == children[tasks[p].child]
                  IN  /\ resp'.op = "run"
                      /\ resp'.code = "OK"
                      /\ ~resp'.dry_run
                      /\ resp'.exit_code = child.exit_code
                      /\ resp'.success = (child.exit_code = 0)
                      /\ Len(audit') = Len(audit) + 1
                      /\ audit'[Len(audit')].service = "command"
                      /\ audit'[Len(audit')].action = "execute"
                      /\ audit'[Len(audit')].result =
                             IF child.exit_code = 0 THEN "success" ELSE "failed"
       /\ (resp'.op = "run" /\ resp'.code = "INTERNAL") =>
              /\ ~resp'.dry_run
              /\ ~can_spawn(World, resp'.command,
                            IF resp'.cwd = "" THEN None ELSE Some(resp'.cwd))
              /\ UNCHANGED <<audit, children>>]_vars

NonZeroExitIsNotAnErrorWitness ==
    /\ resp.op = "run"
    /\ resp.code = "OK"
    /\ ~resp.dry_run
    /\ resp.exit_code /= 0
    /\ ~resp.success
    /\ audit /= <<>>
    /\ audit[Len(audit)].action = "execute"
    /\ audit[Len(audit)].result = "failed"

\* C35: while a create stands between its insert into the in-memory index and its
\* rewrite of index.json, no other caller takes the manager lock: no list or get
\* answers, and no other call changes the in-memory index or begins a restore.
CreateIndexUpdateIsAtomic ==
    [][\A p \in Procs :
           (tasks[p].pc = "create_save" /\ tasks'[p] = tasks[p]) =>
               /\ resp'.op \notin {"manager.list", "manager.get"}
               /\ snapshots' = snapshots
               /\ \A q \in Procs \ {p} :
                      tasks'[q].pc \in LockedPcs => tasks[q].pc \in LockedPcs]_vars

\* the blob files in the directory of snapshot id
BlobFilesOf(id) == { k \in DOMAIN blobs : k[1] = id }

\* C36: the blobs of a snapshot are named by the digest of their content: every
\* captured file points at <id>/<sha256 of its content>, files of equal digest
\* share one blob, and the directory holds exactly one blob per distinct digest.
BlobsAreContentAddressed ==
    \A id \in DOMAIN snapshots :
        LET files  == snapshots[id].files
            hashes == { files[f].sha256 : f \in DOMAIN files }
        IN  /\ \A f \in DOMAIN files :
                   /\ files[f].snapshot_path = <<id, files[f].sha256>>
                   /\ files[f].snapshot_path \in BlobFilesOf(id)
                   /\ Len(blobs[files[f].snapshot_path]) = files[f].size
            /\ \A k \in BlobFilesOf(id) : compute_sha256(blobs[k]) = k[2]
            /\ BlobFilesOf(id) = { <<id, h>> : h \in hashes }
            /\ Cardinality(BlobFilesOf(id)) = Cardinality(hashes)

BlobsAreContentAddressedWitness ==
    \E id \in DOMAIN snapshots :
        \E f, g \in DOMAIN snapshots[id].files :
            /\ f /= g
            /\ snapshots[id].files[f].snapshot_path = snapshots[id].files[g].snapshot_path
            /\ Cardinality(DOMAIN snapshots[id].files) = 2
            /\ Cardinality(BlobFilesOf(id)) = 1

\* C37: whenever no SnapshotManager call is in progress, whatever the calls made
\* so far returned, the in-memory index and index.json hold the same snapshot ids.
IndexesAgreeAfterReturn ==
    (\A p \in Procs : tasks[p] = Idle) => DOMAIN snapshots = DOMAIN indexJson


\* C38: the snapshot a create or append returns holds, for the path of the
\* request, the content that the request's own write replaced.
SnapshotHoldsWhatWasReplaced ==
    \A n \in 1..Len(held) :
        (/\ held[n].code = "OK"
         /\ held[n].snapshot_id /= None
         /\ held[n].replaced /= None)
            => LET files == snapshots[held[n].snapshot_id[1]].files
               IN  /\ held[n].req.path \in DOMAIN files
                   /\ blobs[files[held[n].req.path].snapshot_path] = held[n].replaced[1]


\* the answers that carry a status code
RequestOps == {"create", "append", "read", "move", "copy", "git.commit", "run"}

\* C39: a request answered PERMISSION_DENIED or FAILED_PRECONDITION (denied by the
\* policy, or needing an approval it did not bring) changes nothing: the files
\* and directories, the snapshots, index.json and the blobs, the audit log, the
\* child processes and the repositories are as they were.
RejectedRequestHasNoEffect ==
    [][(/\ resp'.op \in RequestOps
        /\ resp'.code \in {"PERMISSION_DENIED", "FAILED_PRECONDITION"})
           => UNCHANGED <<config, fsDirs, fsFiles, snapshots, indexJson, snapDirs, blobs,
                          nextUuid, audit, children, repos, tasks, held>>]_vars

RejectedRequestHasNoEffectWitness ==
    /\ resp.op \in RequestOps
    /\ resp.code = "FAILED_PRECONDITION"
    /\ audit = PriorAudit
    /\ snapshots = EmptyMap
    /\ children = <<>>


-----------------------------------------------------------------------------
(* Properties of the locks (SpecLocks) *)

\* the mutex the next step of a caller locks
Wants(t) ==
    IF t.pc \in {"create_insert", "save_index", "restore", "delete", "list", "get"}
    THEN "index"
    ELSE IF t.pc = "audit_lock" THEN "audit"
    ELSE ""

\* no caller locks the index Mutex while it holds any guard, the index guard is
\* held alone, and the audit Mutex is locked with at most the read guard of the
\* configuration held
LockDiscipline ==
    \A p \in Procs :
        /\ Wants(tasks[p]) = "index" => LocksOf(tasks[p]) = {}
        /\ Wants(tasks[p]) = "audit" => LocksOf(tasks[p]) \subseteq {"config"}
        /\ "index" \in LocksOf(tasks[p]) => LocksOf(tasks[p]) = {"index"}

\* C40: the locks are taken in one order and never twice by one caller, and
\* every call that has begun returns.
LocksAreDeadlockFree ==
    /\ []LockDiscipline
    /\ \A p \in Procs : (tasks[p].pc /= "idle") ~> (tasks[p].pc = "idle")

LocksAreDeadlockFreeWitness ==
    \E p, q \in Procs :
        /\ p /= q
        /\ "index" \in LocksOf(tasks[p])
        /\ Wants(tasks[q]) = "index"
        /\ Len(held) >= 2


=============================================================================
